---- MODULE Spec2Model ----
(***************************************************************************)
(* A model of the Diadochi expert-combination engine of hegel:             *)
(*   backend/diadochi/orchestrator.py   MetacognitiveOrchestrator          *)
(*   backend/diadochi/patterns/ensemble.py   Ensemble                      *)
(*   backend/diadochi/patterns/moe.py        MixtureOfExperts              *)
(*   backend/diadochi/core/registry.py       ModelRegistry                 *)
(*                                                                         *)
(* The module holds several specifications over one set of variables; each *)
(* drives one component and leaves the variables of the others unchanged:  *)
(*   SpecOrch  process_query of the orchestrator, with its nested fallback *)
(*   SpecEns   Ensemble.generate (routing, fan-out, retry, fallback)       *)
(*   SpecMoE   MixtureOfExperts.generate (estimate, select, fan-out)       *)
(*   SpecFan   the two fan-outs run on the same experts and outcomes       *)
(*                                                                         *)
(* Experts, routers, estimators and mixers are collaborators: what they    *)
(* return (a response, an error, no answer at all) is chosen by the        *)
(* environment from bounded sets.  Scores and confidences are counted in   *)
(* tenths (7 stands for 0.7), times in whole ticks.                        *)
(***************************************************************************)
EXTENDS Integers, Sequences, FiniteSets, TLC

VARIABLES
    \* ---- orchestrator (orchestrator.py) ----
    stack,             \* the process_query activations, innermost last
    ret,               \* what the activation that finished last returned
    stats,             \* MetacognitiveOrchestrator.stats
    executed,          \* strategies handed to _execute_pipeline in this Query
    fallbackAttempts,  \* recursive process_query calls made by this Query
    answered,          \* activations of this Query that built a result at line 144
    nQueries,          \* Query calls started so far
    recorded,          \* the outcomes handed to _update_stats so far
    suspended,         \* the Query calls waiting at an await for their turn
    \* ---- registry (registry.py) and the experts' liveness ----
    models,            \* ModelRegistry.models: the registered names, in order
    avail,             \* the names whose is_available() answers True
    \* ---- a pattern object and its generate call (ensemble.py, moe.py) ----
    ecfg,              \* EnsembleConfig
    mcfg,              \* MoEConfig
    pat,               \* the pattern whose code runs: "ensemble" or "moe"
    gpc,               \* where generate (or the fan-out called alone) stands
    args,              \* the arguments of the generate call
    snapshot,          \* available_models, read once at the start of generate
    scores,            \* confidence_scores of the estimator (MoE)
    selected,          \* selected_models / selected_experts: <<name, weight>>
    applied,           \* what _select_experts read of self.config (MoE)
    path,              \* the branch generate took
    mixed,             \* what was handed to mixer.mix
    result,            \* what generate returned
    pstats,            \* the pattern's stats counters
    \* ---- the fan-out (_generate_responses, _generate_expert_responses) ----
    created,           \* names whose coroutine object has been created
    idx,               \* position in `selected` of the call awaited now
    xpc,               \* the awaited call: "idle", "calling" or "sleeping"
    attempt,           \* the retry loop's attempt (counted from 0)
    sleepFor,          \* the delay of the sleep in progress
    elapsed,           \* time the awaited call has spent asleep so far
    timer,             \* TRUE while asyncio.wait_for bounds the awaited call
    started,           \* names whose call has begun to run
    outcome,           \* how each expert's call ended
    invocations,       \* model.generate invocations per expert in this call
    responses,         \* the responses dictionary: its keys, in order
    history,           \* per expert, the outcomes of its attempts so far
    replay,            \* TRUE while a fan-out replays recorded outcomes
    ensSurvivors,      \* the responses of the Ensemble fan-out being replayed
    \* ---- Ensemble._handle_fallback ----
    fbQueue,           \* the experts the fallback policy has still to call
    fbPolicy,          \* the fallback policies that have been run
    \* ---- a collaborator called on its own (mixers.py, routers.py, ...) ----
    callee,            \* the object whose method runs, with its settings
    callArgs,          \* the arguments of the call
    callOut            \* <<>> until the call has ended, then <<its outcome>>

orchVars == <<stack, ret, stats, executed, fallbackAttempts, answered, nQueries,
              recorded, suspended>>

regVars == <<models, avail>>

cfgVars == <<ecfg, mcfg>>

\* what a generate call fixes before its fan-out begins
callVars == <<pat, args, snapshot, scores, selected, applied, path>>

\* what a generate call leaves behind
outVars == <<mixed, result, pstats>>

\* the call being awaited
waitVars == <<idx, xpc, attempt, sleepFor, elapsed, timer>>

\* what the fan-out has done to each expert
doneVars == <<created, started, outcome, invocations, responses>>

ghostVars == <<history, replay, ensSurvivors>>

fbVars == <<fbQueue, fbPolicy>>

patVars == <<regVars, cfgVars, callVars, gpc, outVars, waitVars, doneVars,
             ghostVars, fbVars>>

libVars == <<callee, callArgs, callOut>>

vars == <<orchVars, patVars, libVars>>

----------------------------------------------------------------------------
(* Bounds of the model *)

MaxQueries == 1

\* the largest max_retries an EnsembleConfig of the model holds
MaxRetries == 3

----------------------------------------------------------------------------
(* PipelineStrategy, QueryComplexity, PipelineConfig *)

AUTO == "auto"
ENSEMBLE == "ensemble"
MOE == "mixture_of_experts"
CHAIN == "sequential_chain"
HYBRID == "hybrid"
None == "None"

PipelineStrategy == {AUTO, ENSEMBLE, MOE, CHAIN, HYBRID}

SIMPLE == "simple"
MODERATE == "moderate"
COMPLEX == "complex"
EXPERT == "expert"

QueryComplexity == {SIMPLE, MODERATE, COMPLEX, EXPERT}

\* PipelineConfig(strategy = s) with the dataclass defaults for the rest
PipelineConfig(s) ==
    [strategy |-> s,
     max_parallel_models |-> 3,
     confidence_threshold |-> 7,
     enable_explanation |-> TRUE,
     enable_metadata |-> TRUE,
     fallback_strategy |-> ENSEMBLE]

\* The options a caller sets beside the strategies: max_parallel_models,
\* confidence_threshold and enable_explanation, the defaults and another
\* choice
CallerOptions == {<<3, 7, TRUE>>, <<1, 9, FALSE>>}

\* The configurations a caller passes to process_query
CallerConfigs ==
    {[strategy |-> s,
      max_parallel_models |-> o[1],
      confidence_threshold |-> o[2],
      enable_explanation |-> o[3],
      enable_metadata |-> TRUE,
      fallback_strategy |-> f] :
        s \in PipelineStrategy, o \in CallerOptions,
        f \in PipelineStrategy \cup {None}}

\* A query, as far as _analyze_query reads it: its number of words and whether
\* it contains a synthesis indicator and an expertise indicator
Query(n, synthesis, expertise) ==
    [words |-> n, synthesis |-> synthesis, expertise |-> expertise]

Queries ==
    {Query(4, FALSE, FALSE), Query(25, FALSE, TRUE),
     Query(25, FALSE, FALSE), Query(60, TRUE, FALSE)}

\* The calls the model makes: a pinned strategy does not read the query, so
\* one query stands for all of them there
Calls ==
    {c \in Queries \X CallerConfigs :
        c[2].strategy = AUTO \/ c[1] = Query(4, FALSE, FALSE)}

\* Confidences a strategy's execution reports, in tenths
Confidences == {0, 8}

----------------------------------------------------------------------------
(* _analyze_query and _select_strategy *)

_analyze_query(q) ==
    LET byLength == IF q.words > 50 THEN COMPLEX
                    ELSE IF q.words > 20 THEN MODERATE
                    ELSE SIMPLE
    IN  [length |-> q.words,
         complexity |-> IF q.synthesis THEN COMPLEX ELSE byLength,
         requires_synthesis |-> q.synthesis,
         requires_expertise |-> q.expertise]

\* _select_strategy with the chain rule tried before the mixture rule
_select_strategy_chainFirst(analysis, config) ==
    IF config.strategy # AUTO THEN config.strategy
    ELSE IF analysis.complexity = SIMPLE /\ ~analysis.requires_synthesis
        THEN ENSEMBLE
    ELSE IF analysis.requires_expertise
            /\ analysis.complexity \in {MODERATE, COMPLEX}
        THEN CHAIN
    ELSE IF analysis.requires_synthesis \/ analysis.complexity = COMPLEX
        THEN MOE
    ELSE IF analysis.complexity = EXPERT
        THEN HYBRID
    ELSE ENSEMBLE

_select_strategy(analysis, config) ==
    IF config.strategy # AUTO THEN config.strategy
    ELSE IF analysis.complexity = SIMPLE /\ ~analysis.requires_synthesis
        THEN ENSEMBLE
    ELSE IF analysis.requires_synthesis \/ analysis.complexity = COMPLEX
        THEN MOE
    ELSE IF analysis.requires_expertise
            /\ analysis.complexity \in {MODERATE, COMPLEX}
        THEN CHAIN
    ELSE IF analysis.complexity = EXPERT
        THEN HYBRID
    ELSE ENSEMBLE

----------------------------------------------------------------------------
(* RollingStats: _update_stats.  success_rate is kept as the exact fraction *)
(* num/den; the running average of the wall-clock time is not modelled.     *)

InitStats ==
    [total_queries |-> 0,
     strategy_usage |-> [s \in PipelineStrategy |-> 0],
     success_rate |-> [num |-> 0, den |-> 1]]

RECURSIVE GCD(_, _)
GCD(a, b) == IF b = 0 THEN a ELSE GCD(b, a % b)

\* The fraction num / den in lowest terms
Fraction(num, den) ==
    [num |-> num \div GCD(num, den), den |-> den \div GCD(num, den)]

\* _update_stats with a torn update: the total is written, the usage count
\* of the strategy is not
_update_stats_torn(st, strategy, success) ==
    [st EXCEPT !.total_queries = @ + 1]

_update_stats(st, strategy, success) ==
    LET n == st.total_queries + 1
        sr == st.success_rate
    IN  [total_queries |-> n,
         strategy_usage |->
            [st.strategy_usage EXCEPT ![strategy] = @ + 1],
         success_rate |->
            Fraction(sr.num * (n - 1) + (IF success THEN sr.den ELSE 0),
                     sr.den * n)]

----------------------------------------------------------------------------
(* process_query *)

NoReturn == [kind |-> "none"]

\* The value an exception leaving process_query would hand to the caller
Raised == [kind |-> "raised"]

\* The PipelineResult of lines 144-153
SuccessResult(f) ==
    [kind |-> "result",
     response |-> "answer",
     confidence |-> f.confidence,
     strategy_used |-> f.strategy,
     error |-> FALSE,
     explanation |-> f.config.enable_explanation]

\* The PipelineResult of lines 173-180
ErrorResult(f) ==
    [kind |-> "result",
     response |-> "Pipeline execution failed",
     confidence |-> 0,
     strategy_used |-> f.config.strategy,
     error |-> TRUE,
     explanation |-> FALSE]

\* The steps of process_query that run inside its try block (lines 127-153)
TrySteps == {"analyze", "select", "execute", "enhance", "build"}

\* A try block that begins after the analysis
TryCovers_afterAnalysis(step) == step \in TrySteps \ {"analyze"}

TryCovers(step) == step \in TrySteps

NewFrame(q, config) ==
    [query |-> q,
     config |-> config,
     pc |-> "analyze",
     strategy |-> None,
     confidence |-> 0]

Top == stack[Len(stack)]

Running == stack # <<>>

SetTop(f) == [stack EXCEPT ![Len(stack)] = f]

Pop == SubSeq(stack, 1, Len(stack) - 1)

\* An exception raised by `step` of the innermost activation: the except
\* clause of line 155 takes it when the step is inside the try block, and it
\* leaves process_query otherwise
Throw(step) ==
    IF TryCovers(step)
    THEN /\ stack' = SetTop([Top EXCEPT !.pc = "except"])
         /\ ret' = ret
    ELSE /\ stack' = Pop
         /\ ret' = Raised

\* Query: a caller invokes process_query(query, domain_context, config)
ProcessQuery(q, config) ==
    /\ ~Running
    /\ nQueries < MaxQueries
    /\ stack' = <<NewFrame(q, config)>>
    /\ ret' = NoReturn
    /\ executed' = <<>>
    /\ fallbackAttempts' = 0
    /\ answered' = 0
    /\ nQueries' = nQueries + 1
    /\ UNCHANGED <<stats, recorded>>
    /\ UNCHANGED <<suspended, patVars, libVars>>

\* line 129: analysis = await self._analyze_query(query, domain_context)
AnalyzeQuery(ok) ==
    /\ Running /\ Top.pc = "analyze"
    /\ IF ok
       THEN /\ stack' = SetTop([Top EXCEPT !.pc = "select"])
            /\ ret' = ret
       ELSE Throw("analyze")
    /\ UNCHANGED <<stats, recorded, executed, fallbackAttempts, answered, nQueries>>
    /\ UNCHANGED <<suspended, patVars, libVars>>

\* line 130: strategy = await self._select_strategy(analysis, config)
SelectStrategy(ok) ==
    /\ Running /\ Top.pc = "select"
    /\ IF ok
       THEN /\ stack' = SetTop([Top EXCEPT
                    !.pc = "execute",
                    !.strategy = _select_strategy(_analyze_query(Top.query), Top.config)])
            /\ ret' = ret
       ELSE Throw("select")
    /\ UNCHANGED <<stats, recorded, executed, fallbackAttempts, answered, nQueries>>
    /\ UNCHANGED <<suspended, patVars, libVars>>

\* line 135: result = await self._execute_pipeline(query, strategy, ...);
\* the strategy's component answers with some confidence or raises
ExecutePipeline(ok, c) ==
    /\ Running /\ Top.pc = "execute"
    /\ executed' = Append(executed, Top.strategy)
    /\ IF ok
       THEN /\ stack' = SetTop([Top EXCEPT !.pc = "enhance", !.confidence = c])
            /\ ret' = ret
       ELSE Throw("execute")
    /\ UNCHANGED <<stats, recorded, fallbackAttempts, answered, nQueries>>
    /\ UNCHANGED <<suspended, patVars, libVars>>

\* line 138: enhanced_result = await self._enhance_result(result, ...)
EnhanceResult(ok) ==
    /\ Running /\ Top.pc = "enhance"
    /\ IF ok
       THEN /\ stack' = SetTop([Top EXCEPT !.pc = "build"])
            /\ ret' = ret
       ELSE Throw("enhance")
    /\ UNCHANGED <<stats, recorded, executed, fallbackAttempts, answered, nQueries>>
    /\ UNCHANGED <<suspended, patVars, libVars>>

\* lines 140-153: record the success, then build and return the result; a
\* result dictionary that lacks a key raises here, after the statistics
ReturnResult(ok) ==
    /\ Running /\ Top.pc = "build"
    /\ stats' = _update_stats(stats, Top.strategy, TRUE)
    /\ recorded' = [recorded EXCEPT !.successes = @ + 1]
    /\ IF ok
       THEN /\ stack' = Pop
            /\ ret' = SuccessResult(Top)
            /\ answered' = answered + 1
       ELSE /\ Throw("build")
            /\ answered' = answered
    /\ UNCHANGED <<executed, fallbackAttempts, nQueries>>
    /\ UNCHANGED <<suspended, patVars, libVars>>

\* lines 155-168: record the failure; with a fallback strategy configured
\* and different from config.strategy, call process_query again
HandleException ==
    /\ Running /\ Top.pc = "except"
    /\ stats' = _update_stats(stats, Top.config.strategy, FALSE)
    /\ recorded' = [recorded EXCEPT !.failures = @ + 1]
    /\ IF Top.config.fallback_strategy # None
          /\ Top.config.fallback_strategy # Top.config.strategy
       THEN /\ stack' = Append(SetTop([Top EXCEPT !.pc = "fallback"]),
                    NewFrame(Top.query,
                             PipelineConfig(Top.config.fallback_strategy)))
            /\ ret' = NoReturn
            /\ fallbackAttempts' = fallbackAttempts + 1
       ELSE /\ stack' = Pop
            /\ ret' = ErrorResult(Top)
            /\ fallbackAttempts' = fallbackAttempts
    /\ UNCHANGED <<executed, answered, nQueries>>
    /\ UNCHANGED <<suspended, patVars, libVars>>

\* lines 163-180: the recursive call has come back; its value is returned,
\* and an exception out of it is logged and the error result returned
FallbackReturnsToQuery ==
    /\ Running /\ Top.pc = "fallback"
    /\ ret # NoReturn
    /\ stack' = Pop
    /\ ret' = IF ret.kind = "raised" THEN ErrorResult(Top) ELSE ret
    /\ UNCHANGED <<stats, recorded, executed, fallbackAttempts, answered, nQueries>>
    /\ UNCHANGED <<suspended, patVars, libVars>>

----------------------------------------------------------------------------
(* The registry and the experts *)

\* The names under which experts are registered, in registration order
RegistryOrder == <<"e1", "e2", "e3", "e4">>

SeqToSet(s) == {s[i] : i \in 1..Len(s)}

Experts == SeqToSet(RegistryOrder)

Min(a, b) == IF a <= b THEN a ELSE b

\* s[:n]
Take(s, n) == SubSeq(s, 1, Min(n, Len(s)))

\* ModelRegistry.get_available_models: the registered names whose
\* is_available() answers True, in the order of registry.models
get_available_models == SelectSeq(models, LAMBDA m : m \in avail)

\* ModelRegistry.get finds the name (a KeyError otherwise)
registry_has(name) == name \in SeqToSet(models)

\* The sequences of at most k distinct names of the sequence s
DistinctSeqs(s, k) ==
    {q \in UNION {[1..n -> SeqToSet(s)] : n \in 0..Min(k, Len(s))} :
        \A i, j \in 1..Len(q) : i # j => q[i] # q[j]}

\* An optional numeric argument left at its default, None
NoArg == -1

\* Python's `a or b` for an optional number: None and 0 are both falsy
PyOr(a, b) == IF a = NoArg \/ a = 0 THEN b ELSE a

----------------------------------------------------------------------------
(* EnsembleConfig, MoEConfig *)

\* EnsembleConfig() with the dataclass defaults (timeout in seconds)
DefaultEnsembleConfig ==
    [default_model |-> None,
     fallback_strategy |-> "default",
     timeout |-> 30,
     parallel_execution |-> TRUE,
     max_retries |-> 3,
     retry_delay |-> 1]

\* MoEConfig() with the dataclass defaults (threshold 0.1, temperature 1.0)
DefaultMoEConfig ==
    [confidence_threshold |-> 1,
     max_experts |-> 5,
     parallel_execution |-> TRUE,
     timeout |-> 30,
     aggregation_method |-> "weighted",
     normalize_weights |-> TRUE,
     use_meta_expert |-> FALSE]

FallbackStrategies == {"default", "random", "all"}

AggregationMethods == {"weighted", "top_k", "threshold"}

\* <<retry_delay, timeout>>: the defaults, and a backoff as long as the
\* deadline of the call
Timings == {<<1, 30>>, <<2, 2>>}

\* Configurations that vary what the fan-out reads
FanoutConfigs ==
    {[DefaultEnsembleConfig EXCEPT
            !.parallel_execution = p, !.max_retries = r,
            !.retry_delay = t[1], !.timeout = t[2],
            !.fallback_strategy = "all"] :
        p \in BOOLEAN, r \in 0..MaxRetries, t \in Timings}

\* Configurations that vary what _handle_fallback reads
FallbackConfigs ==
    {[DefaultEnsembleConfig EXCEPT
            !.fallback_strategy = f, !.default_model = m] :
        f \in FallbackStrategies \cup {"none"}, m \in {None, "e2", "e4"}}

\* Configurations that vary what MixtureOfExperts.generate reads
MoEConfigs ==
    {[DefaultMoEConfig EXCEPT
            !.confidence_threshold = th, !.aggregation_method = a,
            !.normalize_weights = n, !.use_meta_expert = u] :
        th \in {1, 7}, a \in AggregationMethods, n \in BOOLEAN, u \in BOOLEAN}

\* The sets of experts that are up when a call is made
Availabilities == {{}, {"e2"}, {"e1", "e2", "e3"}, Experts}

\* The values of Ensemble.generate's top_k argument
TopKs == {1, 2, 3}

\* The values of MixtureOfExperts.generate's top_k and confidence_threshold
MoETopKs == {NoArg, 1, 2}

MoEThresholds == {NoArg, 0, 9}

\* The scores an estimator gives an expert
Scores == {0, 5, 9}

\* The MixtureOfExperts object holds a meta_expert model
meta_expert == TRUE

----------------------------------------------------------------------------
(* The state of a pattern object and of its call *)

NoResult == [kind |-> "none", sources |-> {}, fallback_used |-> FALSE,
             cause |-> None]

\* generate returned final_response, made of the responses of `sources`
Response(src, fb) ==
    [kind |-> "response", sources |-> src, fallback_used |-> fb,
     cause |-> None]

\* _handle_no_available_models: "No models are currently available"
NoModelsResult ==
    [kind |-> "no_models", sources |-> {}, fallback_used |-> FALSE,
     cause |-> None]

\* the end of _handle_fallback: "No suitable models available for this query"
NoSuitableResult ==
    [kind |-> "no_suitable", sources |-> {}, fallback_used |-> TRUE,
     cause |-> None]

\* _handle_no_experts_selected: "No experts were selected for this query"
NoExpertsResult ==
    [kind |-> "no_selected", sources |-> {}, fallback_used |-> FALSE,
     cause |-> None]

\* the except clause of generate: "Error: ..." for the exception of `cause`
ErrorResponse(cause) ==
    [kind |-> "error", sources |-> {}, fallback_used |-> TRUE,
     cause |-> cause]

\* generate has not reached _select_experts
NotApplied ==
    [max_experts |-> NoArg, confidence_threshold |-> NoArg,
     aggregation_method |-> None]

NoMix == [called |-> FALSE, sources |-> {}, weights |-> <<>>, meta |-> FALSE]

InitPStats ==
    [total_queries |-> 0, successful_queries |-> 0, failed_queries |-> 0]

Counted(st, field) == [st EXCEPT ![field] = @ + 1]

NoOutcomes == [e \in Experts |-> "none"]

NoInvocations == [e \in Experts |-> 0]

NoHistory == [e \in Experts |-> <<>>]

FanIdle ==
    /\ created = {}
    /\ idx = 1
    /\ xpc = "idle"
    /\ attempt = 0
    /\ sleepFor = 0
    /\ elapsed = 0
    /\ timer = FALSE
    /\ started = {}
    /\ outcome = NoOutcomes
    /\ invocations = NoInvocations
    /\ responses = <<>>

PatIdle ==
    /\ gpc = "idle"
    /\ args = [top_k |-> NoArg, confidence_threshold |-> NoArg]
    /\ snapshot = <<>>
    /\ scores = <<>>
    /\ selected = <<>>
    /\ applied = NotApplied
    /\ path = "none"
    /\ mixed = NoMix
    /\ result = NoResult
    /\ pstats = InitPStats
    /\ FanIdle
    /\ history = NoHistory
    /\ replay = FALSE
    /\ ensSurvivors = {}
    /\ fbQueue = <<>>
    /\ fbPolicy = {}

\* A pattern object that is never called
PatUnused ==
    /\ models = RegistryOrder
    /\ avail = Experts
    /\ ecfg = DefaultEnsembleConfig
    /\ mcfg = DefaultMoEConfig
    /\ pat = "ensemble"
    /\ PatIdle

----------------------------------------------------------------------------
(* The fan-out: Ensemble._generate_responses with _generate_single_response *)
(* and MixtureOfExperts._generate_expert_responses with                     *)
(* _generate_single_expert_response.                                        *)
(*                                                                          *)
(* Both build one coroutine object per selected expert when                 *)
(* parallel_execution is set and more than one expert is selected, and one  *)
(* at a time otherwise; a coroutine object runs only once it is awaited,    *)
(* and each is awaited through asyncio.wait_for before the next one is.     *)
(* How long an expert takes to answer is the environment's: the deadline of *)
(* wait_for may pass at any moment at which the awaited coroutine is        *)
(* pending, and it has passed once the sleeps alone have used the timeout.  *)

Names(sel) == {sel[i][1] : i \in 1..Len(sel)}

Current == selected[idx][1]

Parallel ==
    IF pat = "ensemble" THEN ecfg.parallel_execution
    ELSE mcfg.parallel_execution

Timeout == IF pat = "ensemble" THEN ecfg.timeout ELSE mcfg.timeout

\* How many times the awaited coroutine may invoke model.generate: the
\* range(max_retries) loop of Ensemble, the one plain call of MoE
Attempts == IF pat = "ensemble" THEN ecfg.max_retries ELSE 1

\* asyncio.sleep(self.config.retry_delay * (attempt + 1))
RetryDelay(a) == ecfg.retry_delay * (a + 1)

\* The exceptions the try around the await swallows: asyncio.TimeoutError
\* and Exception
FanoutCatches_timeoutOnly(how) == how = "timeout"
FanoutCatches(how) == how \in {"timeout", "error"}

\* A replayed fan-out takes the outcome of each attempt from the recording
Scripted(e, a, what) ==
    (replay /\ a < Len(history[e])) => history[e][a + 1] = what

Record(e, what) ==
    IF replay THEN history ELSE [history EXCEPT ![e] = Append(@, what)]

\* The awaited call of Current has ended as `how`: "ok" stores the response,
\* a swallowed exception leaves the expert out and the loop goes on, any
\* other exception reaches the except clause of generate
Settle(how) ==
    /\ outcome' = [outcome EXCEPT ![Current] = how]
    /\ xpc' = "idle"
    /\ timer' = FALSE
    /\ attempt' = 0
    /\ sleepFor' = 0
    /\ elapsed' = 0
    /\ IF how = "ok"
       THEN /\ responses' = Append(responses, Current)
            /\ idx' = idx + 1
            /\ UNCHANGED <<gpc, result, pstats>>
       ELSE IF FanoutCatches(how)
       THEN /\ idx' = idx + 1
            /\ UNCHANGED <<responses, gpc, result, pstats>>
       ELSE /\ gpc' = "done"
            /\ result' = ErrorResponse("expert")
            /\ pstats' = Counted(pstats, "failed_queries")
            /\ UNCHANGED <<responses, idx>>

\* the parallel branch builds the list of coroutine objects
CreateTasks ==
    /\ gpc = "fanout"
    /\ created' = IF Parallel /\ Len(selected) > 1 THEN Names(selected) ELSE {}
    /\ gpc' = "await"
    /\ UNCHANGED <<started, outcome, invocations, responses>>
    /\ UNCHANGED <<orchVars, libVars, regVars, cfgVars, callVars, outVars, waitVars,
                   ghostVars, fbVars>>

\* wait_for starts the coroutine of the next selected expert: registry.get
\* may miss the name, a loop of no attempt ends in the RuntimeError, and
\* otherwise model.generate is invoked
StartCall ==
    /\ gpc = "await" /\ xpc = "idle" /\ idx <= Len(selected)
    /\ created' = created \cup {Current}
    /\ started' = started \cup {Current}
    /\ IF ~registry_has(Current) \/ Attempts = 0
       THEN /\ Settle("error")
            /\ UNCHANGED <<invocations, mixed>>
       ELSE /\ xpc' = "calling"
            /\ timer' = TRUE
            /\ attempt' = 0
            /\ elapsed' = 0
            /\ invocations' = [invocations EXCEPT ![Current] = @ + 1]
            /\ UNCHANGED <<sleepFor, idx, outcome, responses, gpc, outVars>>
    /\ UNCHANGED <<orchVars, libVars, regVars, cfgVars, callVars, ghostVars, fbVars>>

\* model.generate returns a response before the deadline
AttemptReturns ==
    /\ gpc = "await" /\ xpc = "calling" /\ timer
    /\ Scripted(Current, attempt, "ok")
    /\ history' = Record(Current, "ok")
    /\ Settle("ok")
    /\ UNCHANGED <<created, started, invocations, mixed, replay, ensSurvivors>>
    /\ UNCHANGED <<orchVars, libVars, regVars, cfgVars, callVars, fbVars>>

\* model.generate raises before the deadline: the last attempt re-raises,
\* an earlier one goes to sleep
AttemptRaises ==
    /\ gpc = "await" /\ xpc = "calling" /\ timer
    /\ Scripted(Current, attempt, "error")
    /\ history' = Record(Current, "error")
    /\ IF attempt = Attempts - 1
       THEN /\ Settle("error")
            /\ UNCHANGED mixed
       ELSE /\ xpc' = "sleeping"
            /\ sleepFor' = RetryDelay(attempt)
            /\ UNCHANGED <<idx, attempt, elapsed, timer, outcome, responses,
                           gpc, outVars>>
    /\ UNCHANGED <<created, started, invocations, replay, ensSurvivors>>
    /\ UNCHANGED <<orchVars, libVars, regVars, cfgVars, callVars, fbVars>>

\* the sleep ends before the deadline and the loop invokes model.generate
\* again
SleepEnds ==
    /\ gpc = "await" /\ xpc = "sleeping" /\ timer
    /\ elapsed + sleepFor < Timeout
    /\ xpc' = "calling"
    /\ attempt' = attempt + 1
    /\ elapsed' = elapsed + sleepFor
    /\ sleepFor' = 0
    /\ invocations' = [invocations EXCEPT ![Current] = @ + 1]
    /\ UNCHANGED <<idx, timer, created, started, outcome, responses, gpc>>
    /\ UNCHANGED <<orchVars, libVars, regVars, cfgVars, callVars, outVars, ghostVars,
                   fbVars>>

\* the deadline of wait_for passes while model.generate has not answered or
\* during a sleep between attempts: wait_for cancels the coroutine and
\* raises asyncio.TimeoutError
TimeoutExpires ==
    /\ gpc = "await" /\ xpc \in {"calling", "sleeping"} /\ timer
    /\ xpc = "calling" => Scripted(Current, attempt, "timeout")
    /\ history' = IF xpc = "calling" THEN Record(Current, "timeout")
                  ELSE history
    /\ Settle("timeout")
    /\ UNCHANGED <<created, started, invocations, mixed, replay, ensSurvivors>>
    /\ UNCHANGED <<orchVars, libVars, regVars, cfgVars, callVars, fbVars>>

\* every selected expert's call has settled: return responses
ReturnResponses ==
    /\ gpc = "await" /\ xpc = "idle" /\ idx > Len(selected)
    /\ gpc' = "responses"
    /\ UNCHANGED <<orchVars, libVars, regVars, cfgVars, callVars, outVars, waitVars,
                   doneVars, ghostVars, fbVars>>

----------------------------------------------------------------------------
(* Ensemble.generate *)

\* `if not available_models`
NoAvailable_never(av) == FALSE
NoAvailable(av) == av = <<>>

\* A weight is a fraction <<numerator, denominator>>
One == <<1, 1>>

\* What a router may answer.  route gives one name or None, and generate
\* makes [(name, 1.0)] or [] of it; route_multiple gives at most k pairs
\* of distinct names, the weights falling with the rank
RouterResults(k, av) ==
    IF k = 1
    THEN {<<>>} \cup {<< <<m, One>> >> : m \in SeqToSet(av)}
    ELSE {[i \in 1..Len(q) |-> <<q[i], <<10 - i, 10>>>>] :
            q \in DistinctSeqs(av, k)}

WeightOf(sel, e) == (CHOOSE i \in 1..Len(sel) : sel[i][1] = e)

\* {model: weight for model, weight in selected_models if model in responses}
RoutingWeights(sel, resp) ==
    [e \in SeqToSet(resp) \cap Names(sel) |-> sel[WeightOf(sel, e)][2]]

\* generate up to its first await: count the query, read the available
\* models once, answer at once when there is none, else call the router
Generate(k) ==
    /\ gpc = "idle" /\ pat = "ensemble"
    /\ args' = [top_k |-> k, confidence_threshold |-> NoArg]
    /\ pstats' = Counted(pstats, "total_queries")
    /\ snapshot' = get_available_models
    /\ IF NoAvailable(snapshot')
       THEN /\ result' = NoModelsResult
            /\ path' = "no_models"
            /\ gpc' = "done"
       ELSE /\ result' = result
            /\ path' = "routing"
            /\ gpc' = "route"
    /\ UNCHANGED <<pat, scores, selected, applied, mixed>>
    /\ UNCHANGED <<orchVars, libVars, regVars, cfgVars, waitVars, doneVars, ghostVars,
                   fbVars>>

\* the router answers: a selection goes to the fan-out, none to the fallback
RouterAnswers ==
    /\ gpc = "route"
    /\ \E sel \in RouterResults(args.top_k, snapshot) :
        /\ selected' = sel
        /\ IF sel = <<>>
           THEN path' = "fallback" /\ gpc' = "fallback"
           ELSE path' = "routed" /\ gpc' = "fanout"
    /\ UNCHANGED <<pat, args, snapshot, scores, applied>>
    /\ UNCHANGED <<orchVars, libVars, regVars, cfgVars, outVars, waitVars, doneVars,
                   ghostVars, fbVars>>

\* the router raises: the except clause of generate answers
RouterRaises ==
    /\ gpc = "route"
    /\ result' = ErrorResponse("router")
    /\ pstats' = Counted(pstats, "failed_queries")
    /\ gpc' = "done"
    /\ UNCHANGED <<orchVars, libVars, regVars, cfgVars, callVars, mixed, waitVars,
                   doneVars, ghostVars, fbVars>>

\* lines 141-143: successful_queries is counted, then _update_response_time
\* divides by total_queries, and the except clause of generate counts the
\* ZeroDivisionError of a total that reset_statistics has set to 0
CountSuccess(st) ==
    IF st.total_queries = 0
    THEN Counted(Counted(st, "successful_queries"), "failed_queries")
    ELSE Counted(st, "successful_queries")

\* generate from line 141 on: the answer, or "Error: float division by
\* zero"
FinishEnsemble ==
    /\ pstats' = CountSuccess(pstats)
    /\ result' = IF pstats.total_queries = 0
                 THEN ErrorResponse("statistics")
                 ELSE Response(SeqToSet(responses), FALSE)

\* lines 134-138: `if len(responses) == 1` takes the response as it is and
\* generate goes on to its statistics; anything else (no response at all
\* included) is handed to mixer.mix, which is awaited
MixResponses ==
    /\ gpc = "responses" /\ pat = "ensemble"
    /\ IF Len(responses) = 1
       THEN /\ mixed' = mixed
            /\ FinishEnsemble
            /\ gpc' = "done"
       ELSE /\ mixed' = [called |-> TRUE,
                         sources |-> SeqToSet(responses),
                         weights |-> RoutingWeights(selected, responses),
                         meta |-> FALSE]
            /\ gpc' = "mix"
            /\ UNCHANGED <<result, pstats>>
    /\ UNCHANGED <<orchVars, libVars, regVars, cfgVars, callVars, waitVars, doneVars,
                   ghostVars, fbVars>>

\* mixer.mix returns and generate goes on to its statistics, or it raises
\* and the except clause of generate answers
EnsembleMixerReturns(ok) ==
    /\ gpc = "mix" /\ pat = "ensemble"
    /\ IF ok
       THEN FinishEnsemble
       ELSE /\ result' = ErrorResponse("mixer")
            /\ pstats' = Counted(pstats, "failed_queries")
    /\ gpc' = "done"
    /\ UNCHANGED mixed
    /\ UNCHANGED <<orchVars, libVars, regVars, cfgVars, callVars, waitVars, doneVars,
                   ghostVars, fbVars>>

\* Ensemble.reset_statistics, called while generate is at one of its
\* awaits (the router, an expert, a sleep, the mixer), has not begun or has
\* ended
EnsembleResetStatistics ==
    /\ pat = "ensemble" /\ ~replay /\ gpc # "responses"
    /\ pstats' = InitPStats
    /\ UNCHANGED <<orchVars, libVars, regVars, cfgVars, callVars, gpc, mixed,
                   result, waitVars, doneVars, ghostVars, fbVars>>

----------------------------------------------------------------------------
(* Ensemble._handle_fallback *)

\* available_models[:3]
AllFallbackModels_unlimited(av) == av
AllFallbackModels(av) == Take(av, 3)

\* The branch of the if / elif chain that the configuration enters
FallbackBranch(cfg, av) ==
    IF cfg.fallback_strategy = "default" /\ cfg.default_model # None
    THEN "default"
    ELSE IF cfg.fallback_strategy = "random" /\ av # <<>> THEN "random"
    ELSE IF cfg.fallback_strategy = "all" /\ av # <<>> THEN "all"
    ELSE "final"

\* The experts the branch may call, in order (random.choice picks any one)
FallbackModels(cfg, av) ==
    CASE FallbackBranch(cfg, av) = "default" ->
            IF cfg.default_model \in SeqToSet(av)
            THEN {<<cfg.default_model>>} ELSE {<<>>}
      [] FallbackBranch(cfg, av) = "random" -> {<<m>> : m \in SeqToSet(av)}
      [] FallbackBranch(cfg, av) = "all" -> {AllFallbackModels(av)}
      [] OTHER -> {<<>>}

\* 1.0 / len(responses) for each response
EqualWeights(resp) == [e \in SeqToSet(resp) |-> <<1, Len(resp)>>]

\* the if / elif chain picks its branch and the experts of that branch
HandleFallback ==
    /\ gpc = "fallback"
    /\ fbPolicy' = fbPolicy \cup ({FallbackBranch(ecfg, snapshot)} \ {"final"})
    /\ \E q \in FallbackModels(ecfg, snapshot) : fbQueue' = q
    /\ gpc' = "fb_next"
    /\ UNCHANGED <<orchVars, libVars, regVars, cfgVars, callVars, outVars, waitVars,
                   doneVars, ghostVars>>

\* the branch calls its next expert, model.generate awaited as it is, or,
\* with none left, mixes what `all` has gathered or falls to the final
\* "No suitable models" answer
FallbackInvoke ==
    /\ gpc = "fb_next"
    /\ IF fbQueue = <<>>
       THEN /\ IF "all" \in fbPolicy /\ responses # <<>>
               THEN gpc' = "fb_mix" /\ result' = result
               ELSE gpc' = "done" /\ result' = NoSuitableResult
            /\ UNCHANGED <<fbQueue, xpc, invocations, started>>
       ELSE IF registry_has(Head(fbQueue))
       THEN /\ xpc' = "calling"
            /\ invocations' = [invocations EXCEPT ![Head(fbQueue)] = @ + 1]
            /\ started' = started \cup {Head(fbQueue)}
            /\ gpc' = "fb_call"
            /\ UNCHANGED <<fbQueue, result>>
       ELSE /\ IF "all" \in fbPolicy
               THEN gpc' = "fb_next" /\ result' = result
               ELSE gpc' = "done" /\ result' = NoSuitableResult
            /\ fbQueue' = Tail(fbQueue)
            /\ UNCHANGED <<xpc, invocations, started>>
    /\ UNCHANGED <<idx, attempt, sleepFor, elapsed, timer>>
    /\ UNCHANGED <<created, outcome, responses, mixed, pstats, fbPolicy>>
    /\ UNCHANGED <<orchVars, libVars, regVars, cfgVars, callVars, ghostVars>>

\* the expert called by the fallback answers
FallbackReturns ==
    /\ gpc = "fb_call" /\ xpc = "calling"
    /\ xpc' = "idle"
    /\ outcome' = [outcome EXCEPT ![Head(fbQueue)] = "ok"]
    /\ responses' = Append(responses, Head(fbQueue))
    /\ fbQueue' = Tail(fbQueue)
    /\ IF "all" \in fbPolicy
       THEN gpc' = "fb_next" /\ result' = result
       ELSE gpc' = "done" /\ result' = Response({Head(fbQueue)}, TRUE)
    /\ UNCHANGED <<idx, attempt, sleepFor, elapsed, timer>>
    /\ UNCHANGED <<created, started, invocations, mixed, pstats, fbPolicy>>
    /\ UNCHANGED <<orchVars, libVars, regVars, cfgVars, callVars, ghostVars>>

\* the expert called by the fallback raises: `all` goes on with the next,
\* `default` and `random` fall to the final answer
FallbackRaises ==
    /\ gpc = "fb_call" /\ xpc = "calling"
    /\ xpc' = "idle"
    /\ outcome' = [outcome EXCEPT ![Head(fbQueue)] = "error"]
    /\ fbQueue' = Tail(fbQueue)
    /\ IF "all" \in fbPolicy
       THEN gpc' = "fb_next" /\ result' = result
       ELSE gpc' = "done" /\ result' = NoSuitableResult
    /\ UNCHANGED <<idx, attempt, sleepFor, elapsed, timer>>
    /\ UNCHANGED <<created, started, invocations, responses, mixed, pstats,
                   fbPolicy>>
    /\ UNCHANGED <<orchVars, libVars, regVars, cfgVars, callVars, ghostVars>>

\* `all` hands its responses to mixer.mix with equal weights (line 303)
\* and awaits it
FallbackMix ==
    /\ gpc = "fb_mix"
    /\ mixed' = [called |-> TRUE,
                 sources |-> SeqToSet(responses),
                 weights |-> EqualWeights(responses),
                 meta |-> FALSE]
    /\ gpc' = "fb_mixing"
    /\ UNCHANGED <<orchVars, libVars, regVars, cfgVars, callVars, result, pstats,
                   waitVars, doneVars, ghostVars, fbVars>>

\* mixer.mix returns the answer of the fallback; a mixer that raises is
\* caught and leaves the final answer
FallbackMixReturns(ok) ==
    /\ gpc = "fb_mixing"
    /\ result' = IF ok THEN Response(SeqToSet(responses), TRUE)
                 ELSE NoSuitableResult
    /\ gpc' = "done"
    /\ UNCHANGED <<orchVars, libVars, regVars, cfgVars, callVars, mixed, pstats,
                   waitVars, doneVars, ghostVars, fbVars>>

----------------------------------------------------------------------------
(* MixtureOfExperts.generate *)

RECURSIVE SumSeq(_)
SumSeq(s) == IF s = <<>> THEN 0 ELSE Head(s) + SumSeq(Tail(s))

RECURSIVE MaxSeq(_)
MaxSeq(s) ==
    IF Len(s) = 1 THEN s[1]
    ELSE IF Head(s) >= MaxSeq(Tail(s)) THEN Head(s) ELSE MaxSeq(Tail(s))

\* 1000 * exp(-d / 10) for a difference of d tenths, d = 0 .. 10
ExpTable == <<1000, 905, 819, 741, 670, 607, 549, 497, 449, 407, 368>>

\* np.exp(c - np.max(c)) / np.sum(...): the weights as fractions that
\* share one denominator
Softmax(confs) ==
    LET e == [i \in 1..Len(confs) |-> ExpTable[(MaxSeq(confs) - confs[i]) + 1]]
    IN  [i \in 1..Len(confs) |-> <<e[i], SumSeq(e)>>]

Remove(s, m) == [i \in 1..(Len(s) - 1) |-> IF i < m THEN s[i] ELSE s[i + 1]]

\* list.sort(key=lambda x: x[1], reverse=True) on pairs <<name, weight>>
\* whose weights share a denominator: descending, equal keys keeping their
\* order
RECURSIVE SortDesc(_)
SortDesc(s) ==
    IF s = <<>> THEN <<>>
    ELSE LET m == CHOOSE i \in 1..Len(s) :
                    /\ \A j \in 1..Len(s) : s[j][2][1] <= s[i][2][1]
                    /\ \A j \in 1..(i - 1) : s[j][2][1] < s[i][2][1]
         IN  <<s[m]>> \o SortDesc(Remove(s, m))

\* `if confidence >= threshold`
Qualifies_any(confidence, threshold) == TRUE
Qualifies(confidence, threshold) == confidence >= threshold

\* _select_experts with one of the three known aggregation methods; config
\* is self.config when it runs, items are the pairs of
\* confidence_scores.items()
_select_experts(config, items, max_experts, threshold) ==
    LET qualified == SelectSeq(items, LAMBDA p : Qualifies(p[2], threshold))
        confs == [i \in 1..Len(qualified) |-> qualified[i][2]]
    IN  IF qualified = <<>> THEN <<>>
        ELSE IF config.aggregation_method = "weighted"
        THEN Take(SortDesc([i \in 1..Len(qualified) |->
                            <<qualified[i][1], Softmax(confs)[i]>>]),
                  max_experts)
        ELSE Take(SortDesc([i \in 1..Len(qualified) |->
                            <<qualified[i][1], <<qualified[i][2], 10>>>>]),
                  max_experts)

\* confidence_scores.items(), in the order of available_models
Items(av, sc) == [i \in 1..Len(av) |-> <<av[i], sc[av[i]]>>]

\* self.config as lines 132-136 and _select_experts read it
ConfigRead(config) ==
    [max_experts |-> config.max_experts,
     confidence_threshold |-> config.confidence_threshold,
     aggregation_method |-> config.aggregation_method]

\* The threshold and the number of experts in force for the call: the
\* argument, or the configured value read when the estimator had answered
ThresholdInForce ==
    PyOr(args.confidence_threshold, applied.confidence_threshold)

MaxExpertsInForce == PyOr(args.top_k, applied.max_experts)

\* the weights of the experts that answered, divided by their total when
\* normalize_weights is set and the total is positive
MoEWeights(sel, resp) ==
    LET w == RoutingWeights(sel, resp)
        order == SelectSeq(resp, LAMBDA e : e \in Names(sel))
        total == SumSeq([i \in 1..Len(order) |-> w[order[i]][1]])
    IN  IF mcfg.normalize_weights /\ resp # <<>> /\ total > 0
        THEN [e \in DOMAIN w |-> <<w[e][1], total>>]
        ELSE w

\* generate up to its first await
GenerateMoE(k, th) ==
    /\ gpc = "idle" /\ pat = "moe"
    /\ args' = [top_k |-> k, confidence_threshold |-> th]
    /\ pstats' = Counted(pstats, "total_queries")
    /\ snapshot' = get_available_models
    /\ IF NoAvailable(snapshot')
       THEN /\ result' = NoModelsResult
            /\ path' = "no_models"
            /\ gpc' = "done"
       ELSE /\ result' = result
            /\ path' = "estimating"
            /\ gpc' = "estimate"
    /\ UNCHANGED <<pat, scores, selected, applied, mixed>>
    /\ UNCHANGED <<orchVars, libVars, regVars, cfgVars, waitVars, doneVars, ghostVars,
                   fbVars>>

\* the estimator answers and _select_experts picks the experts; with none
\* picked generate answers through _handle_no_experts_selected
EstimatorAnswers ==
    /\ gpc = "estimate"
    /\ applied' = ConfigRead(mcfg)
    /\ \E sc \in [SeqToSet(snapshot) -> Scores] :
        /\ scores' = sc
        /\ selected' = _select_experts(
                            mcfg, Items(snapshot, sc),
                            PyOr(args.top_k, mcfg.max_experts),
                            PyOr(args.confidence_threshold,
                                 mcfg.confidence_threshold))
    /\ IF selected' = <<>>
       THEN /\ result' = NoExpertsResult
            /\ path' = "no_selected"
            /\ gpc' = "done"
       ELSE /\ result' = result
            /\ path' = "routed"
            /\ gpc' = "fanout"
    /\ UNCHANGED <<pat, args, snapshot, mixed, pstats>>
    /\ UNCHANGED <<orchVars, libVars, regVars, cfgVars, waitVars, doneVars, ghostVars,
                   fbVars>>

\* the estimator raises: the except clause of generate answers
EstimatorRaises ==
    /\ gpc = "estimate"
    /\ result' = ErrorResponse("estimator")
    /\ pstats' = Counted(pstats, "failed_queries")
    /\ gpc' = "done"
    /\ UNCHANGED <<orchVars, libVars, regVars, cfgVars, callVars, mixed, waitVars,
                   doneVars, ghostVars, fbVars>>

\* lines 169-171: successful_queries is counted, then _update_statistics
\* divides by total_queries, and the except clause of generate counts the
\* ZeroDivisionError of a total that reset_statistics has set to 0
UpdateStatistics(st) ==
    IF st.total_queries = 0
    THEN Counted(Counted(st, "successful_queries"), "failed_queries")
    ELSE Counted(st, "successful_queries")

\* generate from the statistics on: the answer, or "Error: float division
\* by zero"
FinishMoE ==
    /\ pstats' = UpdateStatistics(pstats)
    /\ result' = IF pstats.total_queries = 0
                 THEN ErrorResponse("statistics")
                 ELSE Response(SeqToSet(responses), FALSE)
    /\ gpc' = "done"

\* lines 163-171 for the combined answer m: the meta-expert is awaited
\* when self.config says so now, otherwise generate ends
Refine(m) ==
    IF mcfg.use_meta_expert /\ meta_expert
    THEN /\ mixed' = [m EXCEPT !.meta = TRUE]
         /\ gpc' = "meta"
         /\ UNCHANGED <<result, pstats>>
    ELSE /\ mixed' = m
         /\ FinishMoE

\* one response is taken as it is, anything else is handed to the mixer
\* with the weights of the experts that answered
Combine ==
    /\ gpc = "responses" /\ pat = "moe" /\ ~replay
    /\ IF Len(responses) = 1
       THEN Refine(NoMix)
       ELSE /\ mixed' = [called |-> TRUE,
                         sources |-> SeqToSet(responses),
                         weights |-> MoEWeights(selected, responses),
                         meta |-> FALSE]
            /\ gpc' = "mix"
            /\ UNCHANGED <<result, pstats>>
    /\ UNCHANGED <<orchVars, libVars, regVars, cfgVars, callVars, waitVars, doneVars,
                   ghostVars, fbVars>>

\* mixer.mix returns, or raises and the except clause of generate answers
MixerReturns(ok) ==
    /\ gpc = "mix" /\ pat = "moe"
    /\ IF ok
       THEN Refine(mixed)
       ELSE /\ result' = ErrorResponse("mixer")
            /\ pstats' = Counted(pstats, "failed_queries")
            /\ gpc' = "done"
            /\ UNCHANGED mixed
    /\ UNCHANGED <<orchVars, libVars, regVars, cfgVars, callVars, waitVars, doneVars,
                   ghostVars, fbVars>>

\* _apply_meta_expert returns: the refined answer, or the combined one when
\* the meta-expert raised
MetaExpertReturns ==
    /\ gpc = "meta" /\ pat = "moe"
    /\ FinishMoE
    /\ UNCHANGED mixed
    /\ UNCHANGED <<orchVars, libVars, regVars, cfgVars, callVars, waitVars, doneVars,
                   ghostVars, fbVars>>

\* generate is at one of its awaits, has not begun or has ended: the
\* moments at which another caller of the object runs
AtAwait == gpc # "responses"

\* The keyword arguments given to update_config, "top_k" being no
\* attribute of MoEConfig
ConfigUpdates ==
    {<<"max_experts", 1>>, <<"aggregation_method", "top_k">>,
     <<"use_meta_expert", TRUE>>, <<"top_k", 1>>}

\* MixtureOfExperts.update_config(key=value)
UpdateConfig(key, value) ==
    /\ pat = "moe" /\ ~replay /\ AtAwait
    /\ mcfg' = IF key \in DOMAIN mcfg
               THEN [mcfg EXCEPT ![key] = value]
               ELSE mcfg
    /\ UNCHANGED <<orchVars, libVars, regVars, ecfg, callVars, gpc, outVars,
                   waitVars, doneVars, ghostVars, fbVars>>

\* MixtureOfExperts.reset_statistics
ResetStatistics ==
    /\ pat = "moe" /\ ~replay /\ AtAwait
    /\ pstats' = InitPStats
    /\ UNCHANGED <<orchVars, libVars, regVars, cfgVars, callVars, gpc, mixed,
                   result, waitVars, doneVars, ghostVars, fbVars>>

----------------------------------------------------------------------------
(* The two fan-outs on the same experts and outcomes: the fan-out of        *)
(* Ensemble runs first and records what each attempt of each expert did,    *)
(* then the fan-out of MoE runs on the same selection with every attempt    *)
(* doing what was recorded.                                                 *)

\* The selections handed to the fan-out
FanSelections ==
    {[i \in 1..n |-> <<RegistryOrder[i], <<10 - i, 10>>>>] : n \in 1..3}

ReplayWithMoE ==
    /\ gpc = "responses" /\ pat = "ensemble"
    /\ ensSurvivors' = SeqToSet(responses)
    /\ replay' = TRUE
    /\ pat' = "moe"
    /\ gpc' = "fanout"
    /\ created' = {}
    /\ idx' = 1
    /\ started' = {}
    /\ outcome' = NoOutcomes
    /\ invocations' = NoInvocations
    /\ responses' = <<>>
    /\ UNCHANGED <<xpc, attempt, sleepFor, elapsed, timer, history>>
    /\ UNCHANGED <<args, snapshot, scores, selected, applied, path>>
    /\ UNCHANGED <<orchVars, libVars, regVars, cfgVars, outVars, fbVars>>

----------------------------------------------------------------------------
(* Specifications *)

\* No collaborator is called on its own
LibUnused ==
    /\ callee = [kind |-> "none"]
    /\ callArgs = <<>>
    /\ callOut = <<>>

OrchUnused ==
    /\ stack = <<>>
    /\ ret = NoReturn
    /\ stats = InitStats
    /\ executed = <<>>
    /\ fallbackAttempts = 0
    /\ answered = 0
    /\ nQueries = 0
    /\ recorded = [successes |-> 0, failures |-> 0]
    /\ suspended = <<>>

InitOrch == OrchUnused /\ PatUnused /\ LibUnused

NextOrch ==
    \/ \E c \in Calls : ProcessQuery(c[1], c[2])
    \/ \E ok \in BOOLEAN : AnalyzeQuery(ok)
    \/ \E ok \in BOOLEAN : SelectStrategy(ok)
    \/ \E ok \in BOOLEAN, c \in Confidences : ExecutePipeline(ok, c)
    \/ \E ok \in BOOLEAN : EnhanceResult(ok)
    \/ \E ok \in BOOLEAN : ReturnResult(ok)
    \/ HandleException
    \/ FallbackReturnsToQuery

SpecOrch == InitOrch /\ [][NextOrch]_vars

\* The Query has returned to its caller
QueryDone == ~Running /\ ret # NoReturn

\* Ensemble.generate with every top_k, over the fan-out's configurations
InitEns ==
    /\ OrchUnused
    /\ LibUnused
    /\ models = RegistryOrder
    /\ avail = {"e1", "e2", "e3"}
    /\ ecfg \in FanoutConfigs
    /\ mcfg = DefaultMoEConfig
    /\ pat = "ensemble"
    /\ PatIdle

NextEns ==
    \/ \E k \in TopKs : Generate(k)
    \/ RouterAnswers
    \/ RouterRaises
    \/ CreateTasks
    \/ StartCall
    \/ AttemptReturns
    \/ AttemptRaises
    \/ SleepEnds
    \/ TimeoutExpires
    \/ ReturnResponses
    \/ MixResponses
    \/ \E ok \in BOOLEAN : EnsembleMixerReturns(ok)
    \/ HandleFallback
    \/ FallbackInvoke
    \/ FallbackReturns
    \/ FallbackRaises
    \/ FallbackMix
    \/ \E ok \in BOOLEAN : FallbackMixReturns(ok)
    \/ EnsembleResetStatistics

SpecEns == InitEns /\ [][NextEns]_vars

\* Ensemble.generate with single routing, over the fallback's
\* configurations and the experts' availability
InitFb ==
    /\ OrchUnused
    /\ LibUnused
    /\ models = RegistryOrder
    /\ avail \in Availabilities
    /\ ecfg \in FallbackConfigs
    /\ mcfg = DefaultMoEConfig
    /\ pat = "ensemble"
    /\ PatIdle

NextFb ==
    \/ Generate(1)
    \/ RouterAnswers
    \/ RouterRaises
    \/ CreateTasks
    \/ StartCall
    \/ AttemptReturns
    \/ AttemptRaises
    \/ SleepEnds
    \/ TimeoutExpires
    \/ ReturnResponses
    \/ MixResponses
    \/ \E ok \in BOOLEAN : EnsembleMixerReturns(ok)
    \/ HandleFallback
    \/ FallbackInvoke
    \/ FallbackReturns
    \/ FallbackRaises
    \/ FallbackMix
    \/ \E ok \in BOOLEAN : FallbackMixReturns(ok)
    \/ EnsembleResetStatistics

SpecFb == InitFb /\ [][NextFb]_vars

\* MixtureOfExperts.generate
InitMoE ==
    /\ OrchUnused
    /\ LibUnused
    /\ models = RegistryOrder
    /\ avail \in {{}, {"e1", "e2", "e3"}}
    /\ ecfg = DefaultEnsembleConfig
    /\ mcfg \in MoEConfigs
    /\ pat = "moe"
    /\ PatIdle

NextMoE ==
    \/ \E k \in MoETopKs, th \in MoEThresholds : GenerateMoE(k, th)
    \/ EstimatorAnswers
    \/ EstimatorRaises
    \/ CreateTasks
    \/ StartCall
    \/ AttemptReturns
    \/ AttemptRaises
    \/ TimeoutExpires
    \/ ReturnResponses
    \/ Combine
    \/ \E ok \in BOOLEAN : MixerReturns(ok)
    \/ MetaExpertReturns
    \/ \E u \in ConfigUpdates : UpdateConfig(u[1], u[2])
    \/ ResetStatistics

SpecMoE == InitMoE /\ [][NextMoE]_vars

\* The fan-out of Ensemble, then that of MoE on the recorded outcomes
InitFan ==
    /\ OrchUnused
    /\ LibUnused
    /\ models = RegistryOrder
    /\ avail = {"e1", "e2", "e3"}
    /\ ecfg \in {c \in FanoutConfigs : c.max_retries >= 1}
    /\ mcfg = [DefaultMoEConfig EXCEPT
                    !.parallel_execution = ecfg.parallel_execution,
                    !.timeout = ecfg.timeout]
    /\ pat = "ensemble"
    /\ gpc = "fanout"
    /\ args = [top_k |-> 3, confidence_threshold |-> NoArg]
    /\ snapshot = get_available_models
    /\ scores = <<>>
    /\ selected \in FanSelections
    /\ applied = NotApplied
    /\ path = "routed"
    /\ mixed = NoMix
    /\ result = NoResult
    /\ pstats = InitPStats
    /\ FanIdle
    /\ history = NoHistory
    /\ replay = FALSE
    /\ ensSurvivors = {}
    /\ fbQueue = <<>>
    /\ fbPolicy = {}

NextFan ==
    \/ CreateTasks
    \/ StartCall
    \/ AttemptReturns
    \/ AttemptRaises
    \/ SleepEnds
    \/ TimeoutExpires
    \/ ReturnResponses
    \/ ReplayWithMoE

SpecFan == InitFan /\ [][NextFan]_vars

----------------------------------------------------------------------------
(* Claims about process_query *)

\* C1: no activation of process_query ends by raising, and a Query in which
\* no activation built a result from a strategy's answer returns a result
\* with confidence 0.0 and an error entry in its metadata.
C1_QueryIsTotal ==
    /\ ret.kind # "raised"
    /\ (QueryDone /\ answered = 0) =>
            /\ ret.kind = "result"
            /\ ret.confidence = 0
            /\ ret.error

\* A Query whose chosen strategy and whose fallback both failed in execution
C1_Witness ==
    /\ QueryDone
    /\ answered = 0
    /\ fallbackAttempts >= 1
    /\ Len(executed) >= 2

\* C2: one Query executes at most two strategies, the chosen one and, after
\* it failed, one fallback: a failed fallback execution is not followed by
\* another, whatever strategy is pinned and whatever fallback is configured.
C2_SingleFallbackAttempt == Len(executed) <= 2

----------------------------------------------------------------------------
(* Claims about the patterns *)

Invoked == {e \in Experts : invocations[e] > 0}

Survivors == {e \in Names(selected) : outcome[e] = "ok"}

\* C3: when Ensemble.generate has answered a routed query, the call of every
\* selected expert was made, the responses are exactly those of the experts
\* whose call succeeded (an expert that timed out or failed after its
\* retries is in neither the mixer's input nor the answer), what is mixed
\* is exactly those responses, and the answer is the response built from
\* them unless the mixer itself raised or the statistics, reset during the
\* call, could not be updated: no expert's failure ends the query.
C3_FailedExpertExcluded ==
    (pat = "ensemble" /\ gpc = "done" /\ path = "routed") =>
        /\ started = Names(selected)
        /\ SeqToSet(responses) = Survivors
        /\ \A e \in Names(selected) :
                outcome[e] \in {"error", "timeout"} =>
                    e \notin mixed.sources /\ e \notin result.sources
        /\ mixed.called <=> Len(responses) # 1
        /\ mixed.called => mixed.sources = Survivors
        /\ \/ result.kind = "response" /\ result.sources = Survivors
           \/ result.kind = "error" /\ result.cause \in {"mixer", "statistics"}

\* Three experts selected: the first failed on each of its attempts, the
\* two after it answered and their responses were mixed
C3_Witness ==
    /\ pat = "ensemble" /\ gpc = "done" /\ path = "routed"
    /\ Len(selected) = 3
    /\ ecfg.max_retries >= 2
    /\ outcome[selected[1][1]] = "error"
    /\ invocations[selected[1][1]] = ecfg.max_retries
    /\ outcome[selected[2][1]] = "ok"
    /\ outcome[selected[3][1]] = "ok"
    /\ mixed.called
    /\ mixed.sources = {selected[2][1], selected[3][1]}
    /\ result.kind = "response"

\* C4: in a parallel fan-out of more than one expert (Ensemble's or MoE's),
\* once the call of an earlier selected expert has settled, the call of
\* every later selected expert has already been started.
C4_CallsInFlightTogether ==
    (gpc = "await" /\ Parallel /\ Len(selected) > 1) =>
        \A i, j \in 1..Len(selected) :
            (i < j /\ outcome[selected[i][1]] # "none") =>
                selected[j][1] \in started

\* C5: in Ensemble's fan-out with max_retries >= 1, a settled expert whose
\* every attempt raised was invoked exactly max_retries times and is not
\* among the responses, an expert that answered was invoked as often as it
\* made attempts, the sleep after attempt n lasts retry_delay * n, and an
\* expert whose call has not been started has not been invoked.
C5_RetryCounts ==
    (pat = "ensemble" /\ path = "routed" /\ ecfg.max_retries >= 1) =>
        /\ \A e \in Names(selected) :
            /\ ( /\ outcome[e] # "none"
                 /\ history[e] # <<>>
                 /\ \A i \in 1..Len(history[e]) : history[e][i] = "error" )
                    => /\ invocations[e] = ecfg.max_retries
                       /\ e \notin SeqToSet(responses)
            /\ outcome[e] = "ok" => invocations[e] = Len(history[e])
            /\ e \notin started => invocations[e] = 0
        /\ xpc = "sleeping" => sleepFor = ecfg.retry_delay * (attempt + 1)

\* C6: every expert generation call that Ensemble.generate has in flight,
\* in the routed fan-out and in the fallback paths, is bounded by the
\* timeout.
C6_EveryCallBounded == (pat = "ensemble" /\ xpc = "calling") => timer

\* C7: MoE's fan-out, run on the selection and the per-attempt outcomes of
\* an Ensemble fan-out, ends with the same set of surviving responses.
C7_SameSurvivors ==
    (replay /\ gpc = "responses") => SeqToSet(responses) = ensSurvivors

\* C8: when Ensemble.generate has answered through the fallback, only the
\* configured policy was run; `default` called nothing but the default
\* expert, and called it when it is among the available experts; `random`
\* called exactly one available expert; `all` called at most 3 available
\* experts, each once, and mixed what they returned with equal weights; and
\* the answer is the response of the experts that answered or, when none
\* did, the "no suitable models" result, never an error.
C8_FallbackPolicy ==
    (gpc = "done" /\ path = "fallback") =>
        /\ fbPolicy \subseteq {ecfg.fallback_strategy}
        /\ Invoked \subseteq SeqToSet(snapshot)
        /\ \A e \in Experts : invocations[e] <= 1
        /\ ecfg.fallback_strategy = "default" =>
                /\ Invoked \subseteq {ecfg.default_model}
                /\ ecfg.default_model \in SeqToSet(snapshot)
                        => Invoked = {ecfg.default_model}
                /\ ~mixed.called
        /\ ecfg.fallback_strategy = "random" =>
                /\ Cardinality(Invoked) = 1
                /\ ~mixed.called
        /\ ecfg.fallback_strategy = "all" =>
                /\ Cardinality(Invoked) = Min(3, Len(snapshot))
                /\ mixed.called <=> responses # <<>>
                /\ mixed.called =>
                        /\ mixed.sources = SeqToSet(responses)
                        /\ \A e \in mixed.sources :
                                mixed.weights[e] = <<1, Len(responses)>>
        /\ ecfg.fallback_strategy \notin FallbackStrategies => Invoked = {}
        /\ result.kind \in {"response", "no_suitable"}
        /\ responses = <<>> => result = NoSuitableResult
        /\ result.kind = "response" =>
                /\ result.sources = SeqToSet(responses)
                /\ result.sources # {}
                /\ result.fallback_used

\* `all` with four experts available: three were called, one of them
\* failed, and the two responses were mixed into the answer
C8_Witness ==
    /\ gpc = "done" /\ path = "fallback"
    /\ ecfg.fallback_strategy = "all"
    /\ Len(snapshot) = 4
    /\ Cardinality(Invoked) = 3
    /\ Len(responses) = 2
    /\ mixed.called
    /\ result.kind = "response"

\* C9: Ensemble.generate called while no registered expert is available
\* answers with the "no models available" result, having called neither
\* the router nor any expert nor the mixer, and not through its except
\* clause.
C9_NoModelsAvailable ==
    (pat = "ensemble" /\ gpc = "done" /\ get_available_models = <<>>) =>
        /\ result = NoModelsResult
        /\ path = "no_models"
        /\ selected = <<>>
        /\ Invoked = {}
        /\ started = {}
        /\ ~mixed.called
        /\ pstats.failed_queries = 0

\* generate was called with no expert available and has answered
C9_Witness ==
    /\ pat = "ensemble" /\ gpc = "done"
    /\ get_available_models = <<>>
    /\ pstats.total_queries = 1
    /\ result.kind = "no_models"

\* The estimator has answered the call
Estimated == snapshot # <<>> /\ DOMAIN scores = SeqToSet(snapshot)

\* C10: when MoE.generate has answered and every estimated score is below
\* the threshold in force for the call (the argument, or the configured
\* value when the argument is absent), the answer is the "no experts
\* selected" result and no expert, mixer or meta-expert was called.
C10_NoExpertsSelected ==
    ( /\ pat = "moe" /\ gpc = "done" /\ Estimated
      /\ \A e \in DOMAIN scores : scores[e] < ThresholdInForce ) =>
        /\ result = NoExpertsResult
        /\ selected = <<>>
        /\ created = {}
        /\ started = {}
        /\ Invoked = {}
        /\ ~mixed.called
        /\ ~mixed.meta

\* A call with confidence_threshold = 0.9 on an object with a meta-expert
\* configured, the best score being 0.5
C10_Witness ==
    /\ pat = "moe" /\ gpc = "done" /\ Estimated
    /\ args.confidence_threshold = 9
    /\ mcfg.use_meta_expert
    /\ \E e \in DOMAIN scores : scores[e] = 5
    /\ \A e \in DOMAIN scores : scores[e] < ThresholdInForce
    /\ result.kind = "no_selected"

----------------------------------------------------------------------------
(* Texts and dictionaries, as mixers.py and routers.py use them *)

\* separator.join(parts)
RECURSIVE Join(_, _)
Join(parts, sep) ==
    IF Len(parts) = 0 THEN ""
    ELSE IF Len(parts) = 1 THEN parts[1]
    ELSE parts[1] \o sep \o Join(Tail(parts), sep)

\* A response text is a sequence of sentences, a sentence a non-empty
\* sequence of lower-case words.  As a Python string every sentence ends in
\* a full stop, with one blank between words and between sentences.
Str(text) == Join([i \in 1..Len(text) |-> Join(text[i], " ") \o "."], " ")

RECURSIVE Flatten(_)
Flatten(ss) == IF Len(ss) = 0 THEN <<>> ELSE Head(ss) \o Flatten(Tail(ss))

\* text.split(): the words, the full stop stuck to the last word of its
\* sentence
split(text) ==
    Flatten([i \in 1..Len(text) |->
                [j \in 1..Len(text[i]) |->
                    IF j = Len(text[i]) THEN text[i][j] \o "." ELSE text[i][j]]])

\* [s.strip() for s in text.split('.') if s.strip()] and
\* re.split(r'[.!?]+', text) stripped: the sentences without their stop
Sentences(text) == [i \in 1..Len(text) |-> Join(text[i], " ")]

\* A dict is the sequence of its <<key, value>> items in insertion order
Keys(d) == [i \in 1..Len(d) |-> d[i][1]]

Has(d, k) == \E i \in 1..Len(d) : d[i][1] = k

\* d.get(k, default)
Get(d, k, default) ==
    IF Has(d, k) THEN d[CHOOSE i \in 1..Len(d) : d[i][1] = k][2] ELSE default

\* sorted(s, key=key, reverse=True) and list.sort(key=key, reverse=True):
\* descending, elements with equal keys keeping their order
RECURSIVE SortKeyed(_, _)
SortKeyed(s, keys) ==
    IF Len(s) = 0 THEN <<>>
    ELSE LET m == CHOOSE i \in 1..Len(s) :
                    /\ \A j \in 1..Len(s) : keys[j] <= keys[i]
                    /\ \A j \in 1..(i - 1) : keys[j] < keys[i]
         IN  <<s[m]>> \o SortKeyed(Remove(s, m), Remove(keys, m))

\* key is the function from the elements of s to their sort keys
sorted_reverse(s, key) == SortKeyed(s, [i \in 1..Len(s) |-> key[s[i]]])

\* max(s, key=key): the first of the maximal elements
max_by(s, key) == sorted_reverse(s, key)[1]

\* f"{w:.1%}" of a weight of w tenths
Percent(w) == ToString(w * 10) \o ".0%"

\* len(set(a) & set(b)) / len(set(a) | set(b)), as <<numerator, denominator>>
Jaccard(a, b) ==
    <<Cardinality(SeqToSet(a) \cap SeqToSet(b)),
      Cardinality(SeqToSet(a) \cup SeqToSet(b))>>

----------------------------------------------------------------------------
(* The mixers (mixers.py).  mix(query, responses, weights) takes the        *)
(* responses as a dict of texts and the weights as a dict of tenths; a      *)
(* weights argument of None and an empty dict take the same branches        *)
(* (`if not weights`, `weights or {}`) and are both the empty sequence.     *)

\* What a mix call leaves behind: the string returned (or the exception),
\* the calls made to the synthesis expert, and whether a pass that drops
\* overlapping or near-duplicate content ran
Mixed(text) ==
    [text |-> text, raised |-> "none", synthesis_calls |-> 0, dedup |-> FALSE]

\* DefaultMixer.mix
DefaultMixer_mix(resps, weights) ==
    IF Len(resps) = 0 THEN Mixed("")
    ELSE IF Len(weights) = 0 THEN Mixed(Str(resps[1][2]))
    ELSE LET best_source ==
                 max_by(Keys(weights),
                        [k \in SeqToSet(Keys(weights)) |-> Get(weights, k, 0)])
         IN  IF Has(resps, best_source)
             THEN Mixed(Str(Get(resps, best_source, <<>>)))
             ELSE Mixed(Str(resps[1][2]))

\* ConcatenationMixer.mix: no branch for a single response
ConcatenationMixer_mix(include_weights, separator, resps, weights) ==
    IF Len(resps) = 0 THEN Mixed("")
    ELSE LET sorted_sources ==
                 IF Len(weights) > 0
                 THEN sorted_reverse(Keys(resps),
                          [k \in SeqToSet(Keys(resps)) |-> Get(weights, k, 0)])
                 ELSE Keys(resps)
             header(source) ==
                 IF include_weights /\ Len(weights) > 0 /\ Has(weights, source)
                 THEN "[" \o source \o " ("
                          \o Percent(Get(weights, source, 0)) \o ")]:"
                 ELSE "[" \o source \o "]:"
             mixed_parts ==
                 [i \in 1..Len(sorted_sources) |->
                     header(sorted_sources[i]) \o "\n"
                         \o Str(Get(resps, sorted_sources[i], <<>>))]
         IN  Mixed(Join(mixed_parts, separator))

\* What synthesis_model.generate does: it raises, or it returns a reply
\* that may carry white space around its body
SynthesisReplies ==
    {[raises |-> TRUE, pre |-> "", body |-> "", post |-> ""],
     [raises |-> FALSE, pre |-> "", body |-> "synthesis", post |-> ""],
     [raises |-> FALSE, pre |-> " ", body |-> "synthesis", post |-> "\n"]}

\* synthesis.strip()
strip(reply) == reply.body

\* SynthesisMixer.mix up to line 198: it returns at once with fewer than
\* two responses, else it builds the prompt, which reaches only the
\* synthesis expert, and awaits synthesis_model.generate, nothing returned
\* yet
SynthesisMixer_mix(resps, weights) ==
    IF Len(resps) = 0 THEN Mixed("")
    ELSE IF Len(resps) = 1 THEN Mixed(Str(resps[1][2]))
    ELSE [Mixed("") EXCEPT !.synthesis_calls = 1]

\* SynthesisMixer.mix from line 198 on: the reply stripped, or, when the
\* synthesis expert raised, ConcatenationMixer().mix of the dictionaries
\* as they are by then
SynthesisMixer_resume(resps, weights, reply) ==
    IF reply.raises
    THEN [ConcatenationMixer_mix(TRUE, "\n\n", resps, weights)
               EXCEPT !.synthesis_calls = 1]
    ELSE [Mixed(strip(reply)) EXCEPT !.synthesis_calls = 1]

\* WeightedMixer._split_into_segments on text.split(): segments of words
RECURSIVE SplitSegments(_, _, _, _, _)
SplitSegments(words, segment_length, segments, current_segment, current_length) ==
    IF Len(words) = 0
    THEN IF Len(current_segment) > 0
         THEN Append(segments, current_segment) ELSE segments
    ELSE LET word == Head(words) IN
         IF current_length + Len(word) + 1 <= segment_length
         THEN SplitSegments(Tail(words), segment_length, segments,
                            Append(current_segment, word),
                            current_length + Len(word) + 1)
         ELSE SplitSegments(Tail(words), segment_length,
                            IF Len(current_segment) > 0
                            THEN Append(segments, current_segment)
                            ELSE segments,
                            <<word>>, Len(word))

_split_into_segments(text, segment_length) ==
    SplitSegments(split(text), segment_length, <<>>, <<>>, 0)

\* WeightedMixer._has_significant_overlap: similarity > overlap_penalty
\* (overlap_penalty in tenths) with some content already used
_has_significant_overlap(segment, used_content, overlap_penalty) ==
    \E used \in used_content :
        /\ Len(segment) > 0
        /\ Len(used) > 0
        /\ Jaccard(segment, used)[1] * 10
               > overlap_penalty * Jaccard(segment, used)[2]

\* WeightedMixer._sentences_similar: similarity >= 0.7
_sentences_similar(sent1, sent2) ==
    /\ Len(sent1) > 0
    /\ Len(sent2) > 0
    /\ Jaccard(sent1, sent2)[1] * 10 >= 7 * Jaccard(sent1, sent2)[2]

\* The loop of mixers.py 317-324: the candidates <<words, weight>> that do
\* not overlap what was kept before them
RECURSIVE KeepFresh(_, _, _, _)
KeepFresh(candidates, used_content, kept, overlap_penalty) ==
    IF Len(candidates) = 0 THEN kept
    ELSE IF _has_significant_overlap(Head(candidates)[1], used_content,
                                     overlap_penalty)
         THEN KeepFresh(Tail(candidates), used_content, kept, overlap_penalty)
         ELSE KeepFresh(Tail(candidates),
                        used_content \cup {Head(candidates)[1]},
                        Append(kept, Head(candidates)), overlap_penalty)

\* The loop of mixers.py 334-339: segments while they fit below 1.2 times
\* the longest response
RECURSIVE TakeFitting(_, _, _)
TakeFitting(segments, total_length, longest) ==
    IF Len(segments) = 0 THEN <<>>
    ELSE LET n == Len(Join(Head(segments)[1], " ")) IN
         IF 10 * (total_length + n) <= 12 * longest
         THEN <<Join(Head(segments)[1], " ")>>
                  \o TakeFitting(Tail(segments), total_length + n, longest)
         ELSE <<>>

\* WeightedMixer._weighted_segments_combination
_weighted_segments_combination(resps, weights, segment_length, overlap_penalty) ==
    LET weighted_responses ==
            sorted_reverse(resps,
                           [r \in SeqToSet(resps) |-> Get(weights, r[1], 0)])
        candidates ==
            Flatten([i \in 1..Len(weighted_responses) |->
                LET segs == _split_into_segments(weighted_responses[i][2],
                                                 segment_length)
                IN  [j \in 1..Len(segs) |->
                        <<segs[j], Get(weights, weighted_responses[i][1], 0)>>]])
        fresh == KeepFresh(candidates, {}, <<>>, overlap_penalty)
        combined_segments ==
            sorted_reverse(fresh, [c \in SeqToSet(fresh) |-> c[2]])
        longest ==
            MaxSeq([i \in 1..Len(resps) |-> Len(Str(resps[i][2]))])
    IN  Join(TakeFitting(combined_segments, 0, longest), " ")

\* The loop of mixers.py 365-370: sentences not similar to one kept before
RECURSIVE KeepDistinct(_, _)
KeepDistinct(sentences, kept) ==
    IF Len(sentences) = 0 THEN kept
    ELSE IF \E i \in 1..Len(kept) : _sentences_similar(Head(sentences), kept[i])
         THEN KeepDistinct(Tail(sentences), kept)
         ELSE KeepDistinct(Tail(sentences), Append(kept, Head(sentences)))

\* WeightedMixer._sentence_selection_combination
_sentence_selection_combination(resps, weights) ==
    LET weighted_sentences ==
            Flatten([i \in 1..Len(resps) |->
                [j \in 1..Len(resps[i][2]) |->
                    <<resps[i][2][j], Get(weights, resps[i][1], 0)>>]])
        by_weight == sorted_reverse(weighted_sentences,
                                    [c \in SeqToSet(weighted_sentences) |-> c[2]])
        final_sentences ==
            KeepDistinct([i \in 1..Len(by_weight) |-> by_weight[i][1]], <<>>)
    IN  Join([i \in 1..Len(final_sentences) |->
                 Join(final_sentences[i], " ")], " ")

\* WeightedMixer._paragraph_blend_combination; a text without a blank line
\* is one paragraph, of topic group 0
_paragraph_blend_combination(resps, weights) ==
    LET paragraphs ==
            SelectSeq([i \in 1..Len(resps) |->
                          <<Str(resps[i][2]),
                            Get(weights, resps[i][1], 0)>>],
                      LAMBDA p : Len(p[1]) > 0)
    IN  IF Len(paragraphs) = 0 THEN ""
        ELSE max_by(paragraphs, [p \in SeqToSet(paragraphs) |-> p[2]])[1]

\* WeightedMixer.mix.  Dividing the weights by their positive total changes
\* no comparison between them, so they stay in tenths.
WeightedMixer_mix(m, resps, weights) ==
    IF Len(resps) = 0 THEN Mixed("")
    ELSE IF Len(resps) = 1 THEN Mixed(Str(resps[1][2]))
    ELSE LET w == IF Len(weights) = 0
                  THEN [i \in 1..Len(resps) |-> <<resps[i][1], 1>>]
                  ELSE weights
         IN  IF m.combination_method = "weighted_segments"
             THEN [Mixed(_weighted_segments_combination(
                             resps, w, m.segment_length,
                             m.overlap_penalty))
                       EXCEPT !.dedup = TRUE]
             ELSE IF m.combination_method = "sentence_selection"
             THEN [Mixed(_sentence_selection_combination(resps, w))
                       EXCEPT !.dedup = TRUE]
             ELSE IF m.combination_method = "paragraph_blend"
             THEN Mixed(_paragraph_blend_combination(resps, w))
             ELSE [Mixed("") EXCEPT !.raised = "ValueError"]

\* ConsensusBasedMixer._extract_key_points: the sentences longer than 20
\* characters, five at most
_extract_key_points(response) ==
    Take(SelectSeq(response, LAMBDA s : Len(Join(s, " ")) > 20), 5)

\* ConsensusBasedMixer._points_similar: similarity >= 0.5
_points_similar(point1, point2) ==
    /\ Len(point1) > 0
    /\ Len(point2) > 0
    /\ Jaccard(point1, point2)[1] * 2 >= Jaccard(point1, point2)[2]

\* The loop of mixers.py 557-575 from position i on: the group of all_points[i]
\* holds the later unused points similar to it, and is a consensus when
\* len(group) >= len(key_points) * consensus_threshold
RECURSIVE GroupFrom(_, _, _, _, _)
GroupFrom(i, all_points, used_points, n_sources, consensus_threshold) ==
    IF i > Len(all_points) THEN <<>>
    ELSE IF i \in used_points
         THEN GroupFrom(i + 1, all_points, used_points, n_sources,
                        consensus_threshold)
    ELSE LET members ==
                 {i} \cup {j \in (i + 1)..Len(all_points) :
                              /\ j \notin used_points
                              /\ _points_similar(all_points[i][1],
                                                 all_points[j][1])}
             group == SelectSeq([j \in 1..Len(all_points) |-> <<j, all_points[j]>>],
                                LAMBDA p : p[1] \in members)
             best_point == max_by(group, [p \in SeqToSet(group) |-> p[2][3]])[2][1]
             rest == GroupFrom(i + 1, all_points, used_points \cup members,
                               n_sources, consensus_threshold)
         IN  IF Len(group) * 10 >= n_sources * consensus_threshold
             THEN <<best_point>> \o rest
             ELSE rest

\* ConsensusBasedMixer._find_consensus on key_points, a dict of the points
\* of every source; a source without a weight weighs 1.0
_find_consensus(key_points, weights, consensus_threshold) ==
    LET all_points ==
            Flatten([i \in 1..Len(key_points) |->
                [j \in 1..Len(key_points[i][2]) |->
                    <<key_points[i][2][j], key_points[i][1],
                      Get(weights, key_points[i][1], 10)>>]])
    IN  GroupFrom(1, all_points, {}, Len(key_points), consensus_threshold)

\* ConsensusBasedMixer._resolve_conflicts
_resolve_conflicts(key_points, weights, conflict_resolution) ==
    IF conflict_resolution = "weight_based"
    THEN LET sorted_sources == sorted_reverse(weights,
                                           [x \in SeqToSet(weights) |-> x[2]])
             top == Take(sorted_sources, 2)
         IN  Flatten([i \in 1..Len(top) |->
                 IF Has(key_points, top[i][1])
                 THEN Take(Get(key_points, top[i][1], <<>>), 2)
                 ELSE <<>>])
    ELSE <<>>

\* The bullet the unified response puts before a point (U+2022 in the
\* source, written here with an ASCII character)
Bullet == "*"

\* ConsensusBasedMixer._build_unified_response
_build_unified_response(consensus_points, conflict_resolutions) ==
    LET bullets(points) ==
            [i \in 1..Len(points) |-> Bullet \o " " \o Join(points[i], " ")]
        response_parts ==
            (IF Len(consensus_points) > 0
             THEN <<"Based on expert consensus:">> \o bullets(consensus_points)
             ELSE <<>>)
            \o
            (IF Len(conflict_resolutions) > 0
             THEN <<IF Len(consensus_points) > 0
                    THEN "\nAdditional considerations:"
                    ELSE "Key insights:">> \o bullets(conflict_resolutions)
             ELSE <<>>)
    IN  IF Len(response_parts) > 0 THEN Join(response_parts, "\n")
        ELSE "No clear consensus found among expert responses."

\* ConsensusBasedMixer.mix
ConsensusBasedMixer_mix(m, resps, weights) ==
    IF Len(resps) = 0 THEN Mixed("")
    ELSE IF Len(resps) = 1 THEN Mixed(Str(resps[1][2]))
    ELSE LET key_points ==
                 [i \in 1..Len(resps) |->
                     <<resps[i][1], _extract_key_points(resps[i][2])>>]
         IN  Mixed(_build_unified_response(
                       _find_consensus(key_points, weights,
                                       m.consensus_threshold),
                       _resolve_conflicts(key_points, weights,
                                          m.conflict_resolution)))

\* mixer.mix(query, responses, weights) of the mixer m, up to its end or
\* to the await of the synthesis expert
mix(m, resps, weights) ==
    IF m.kind = "default" THEN DefaultMixer_mix(resps, weights)
    ELSE IF m.kind = "concatenation"
    THEN ConcatenationMixer_mix(m.include_weights, m.separator, resps,
                                weights)
    ELSE IF m.kind = "synthesis" THEN SynthesisMixer_mix(resps, weights)
    ELSE IF m.kind = "weighted" THEN WeightedMixer_mix(m, resps, weights)
    ELSE ConsensusBasedMixer_mix(m, resps, weights)

\* The mixers create_mixer builds, with their defaults and their variants
Mixers ==
    {[kind |-> "default"], [kind |-> "synthesis"]}
    \cup {[kind |-> "concatenation", include_weights |-> iw,
           separator |-> "\n\n"] : iw \in BOOLEAN}
    \cup {[kind |-> "weighted", combination_method |-> cm,
           segment_length |-> 100, overlap_penalty |-> 1] :
             cm \in {"weighted_segments", "sentence_selection",
                     "paragraph_blend", "average"}}
    \cup {[kind |-> "consensus", consensus_threshold |-> 6,
           conflict_resolution |-> cr] : cr \in {"weight_based", "majority"}}

\* The most responses handed to a mixer
MaxResponses == 2

\* The texts the experts answer with
Texts ==
    {<<<<"rest", "more">>>>,
     <<<<"steady", "training", "builds", "aerobic", "capacity">>,
       <<"rest", "more">>>>,
     <<<<"steady", "training", "builds", "aerobic", "base">>>>}

\* The weights handed to a mixer, in tenths
MixWeights == {3, 7}

\* responses of the first n experts, with no weights or a weight for each;
\* given is the number of responses the call was made with, pc where the
\* call stands
MixArgs ==
    UNION {
        {[responses |-> [i \in 1..n |-> <<RegistryOrder[i], t[i]>>],
          weights |-> w, given |-> n, pc |-> "begin"] :
            t \in [1..n -> Texts],
            w \in {<<>>} \cup
                  {[i \in 1..n |-> <<RegistryOrder[i], x[i]>>] :
                       x \in [1..n -> MixWeights]}}
        : n \in 0..MaxResponses}

\* await mixer.mix(query, responses, weights), to its end or, for the
\* SynthesisMixer with several responses, to the call of the synthesis
\* expert
Mix ==
    /\ callee \in Mixers
    /\ callArgs.pc = "begin"
    /\ LET begun == mix(callee, callArgs.responses, callArgs.weights)
       IN  IF begun.synthesis_calls = 1
           THEN /\ callArgs' = [callArgs EXCEPT !.pc = "synthesis"]
                /\ UNCHANGED callOut
           ELSE /\ callArgs' = [callArgs EXCEPT !.pc = "done"]
                /\ callOut' = <<begun>>
    /\ UNCHANGED <<orchVars, patVars, callee>>

\* synthesis_model.generate returns or raises and mix ends
SynthesisReturns(reply) ==
    /\ callee \in Mixers
    /\ callArgs.pc = "synthesis"
    /\ callArgs' = [callArgs EXCEPT !.pc = "done"]
    /\ callOut' = <<SynthesisMixer_resume(callArgs.responses,
                                          callArgs.weights, reply)>>
    /\ UNCHANGED <<orchVars, patVars, callee>>

\* del responses[key] or del weights[key] by the owner of the
\* dictionaries, while mix awaits the synthesis expert
DeleteKey(which, key) ==
    /\ callee \in Mixers
    /\ callArgs.pc = "synthesis"
    /\ Has(callArgs[which], key)
    /\ callArgs' = [callArgs EXCEPT
            ![which] = SelectSeq(@, LAMBDA item : item[1] # key)]
    /\ UNCHANGED <<orchVars, patVars, callee, callOut>>

InitMix ==
    /\ OrchUnused
    /\ PatUnused
    /\ callee \in Mixers
    /\ callArgs \in MixArgs
    /\ callOut = <<>>

NextMix ==
    \/ Mix
    \/ \E reply \in SynthesisReplies : SynthesisReturns(reply)
    \/ \E which \in {"responses", "weights"}, key \in Experts :
          DeleteKey(which, key)

SpecMix == InitMix /\ [][NextMix]_vars


----------------------------------------------------------------------------
(* The registry changed while a generate call is in flight *)

\* The most experts removed while one generate call runs
MaxRemovals == 1

\* ModelRegistry.remove_model(name), and Ensemble.remove_model(name), run by
\* another task while generate is suspended at an await; generate holds
\* the names it read (snapshot, selected, fbQueue) and looks each one up
\* again with registry.get when its call starts
remove_model(name) ==
    /\ gpc \notin {"idle", "done"}
    /\ registry_has(name)
    /\ Len(models) > Len(RegistryOrder) - MaxRemovals
    /\ models' = SelectSeq(models, LAMBDA n : n # name)
    /\ UNCHANGED <<orchVars, libVars, avail, cfgVars, callVars, gpc, outVars,
                   waitVars, doneVars, ghostVars, fbVars>>

\* Configurations of the fan-out in which a failed call is retried once
ChurnConfigs == {c \in FanoutConfigs : c.max_retries = 2}

\* Ensemble.generate while experts are removed from the registry
InitChurn ==
    /\ OrchUnused
    /\ LibUnused
    /\ models = RegistryOrder
    /\ avail = {"e1", "e2", "e3"}
    /\ ecfg \in ChurnConfigs
    /\ mcfg = DefaultMoEConfig
    /\ pat = "ensemble"
    /\ PatIdle

NextChurn ==
    \/ NextEns
    \/ \E name \in Experts : remove_model(name)

SpecChurn == InitChurn /\ [][NextChurn]_vars

----------------------------------------------------------------------------
(* Overlapping Query calls on one orchestrator.  process_query is a         *)
(* coroutine: the event loop runs one call at a time and changes to         *)
(* another only where the running one awaits.  Every action of the          *)
(* orchestrator above is the code between two awaits, so the calls          *)
(* interleave action by action; _update_stats has no await in it and runs   *)
(* inside one action.                                                       *)

\* The Query calls that may be in flight together
MaxOverlap == 2

\* The calls made together: an automatic choice that falls back to the
\* chain, and a pinned strategy without a fallback
OverlapCalls ==
    {<<Query(4, FALSE, FALSE),
       [PipelineConfig(AUTO) EXCEPT !.fallback_strategy = CHAIN]>>,
     <<Query(4, FALSE, FALSE),
       [PipelineConfig(MOE) EXCEPT !.fallback_strategy = None]>>}

\* What belongs to the Query call that runs now
Context ==
    [stack |-> stack, ret |-> ret, executed |-> executed,
     fallbackAttempts |-> fallbackAttempts, answered |-> answered]

\* A caller invokes process_query while the calls made before are in
\* flight: the call that was running waits at its await
OverlappingQuery(q, config) ==
    /\ nQueries < MaxOverlap
    /\ suspended' = IF Running THEN Append(suspended, Context) ELSE suspended
    /\ stack' = <<NewFrame(q, config)>>
    /\ ret' = NoReturn
    /\ executed' = <<>>
    /\ fallbackAttempts' = 0
    /\ answered' = 0
    /\ nQueries' = nQueries + 1
    /\ UNCHANGED <<stats, recorded>>
    /\ UNCHANGED <<patVars, libVars>>

\* The event loop resumes the i-th waiting call; the call that ran waits in
\* its place, unless it has returned
Resume(i) ==
    /\ i \in 1..Len(suspended)
    /\ suspended' = IF Running THEN [suspended EXCEPT ![i] = Context]
                    ELSE Remove(suspended, i)
    /\ stack' = suspended[i].stack
    /\ ret' = suspended[i].ret
    /\ executed' = suspended[i].executed
    /\ fallbackAttempts' = suspended[i].fallbackAttempts
    /\ answered' = suspended[i].answered
    /\ UNCHANGED <<stats, recorded, nQueries>>
    /\ UNCHANGED <<patVars, libVars>>

InitOverlap == OrchUnused /\ PatUnused /\ LibUnused

NextOverlap ==
    \/ \E c \in OverlapCalls : OverlappingQuery(c[1], c[2])
    \/ \E i \in 1..MaxOverlap : Resume(i)
    \/ \E ok \in BOOLEAN : AnalyzeQuery(ok)
    \/ \E ok \in BOOLEAN : SelectStrategy(ok)
    \/ \E ok \in BOOLEAN, c \in Confidences : ExecutePipeline(ok, c)
    \/ \E ok \in BOOLEAN : EnhanceResult(ok)
    \/ \E ok \in BOOLEAN : ReturnResult(ok)
    \/ HandleException
    \/ FallbackReturnsToQuery

SpecOverlap == InitOverlap /\ [][NextOverlap]_vars

----------------------------------------------------------------------------
(* The registry on its own (registry.py): callee is the ModelRegistry, its  *)
(* two dicts as sequences of items; callArgs is the operation called last   *)
(* and callOut what it raised.                                              *)

\* d[k] = v: a present key keeps its place, a new key goes to the end
Put(d, k, v) ==
    IF Has(d, k)
    THEN [i \in 1..Len(d) |-> IF d[i][1] = k THEN <<k, v>> ELSE d[i]]
    ELSE Append(d, <<k, v>>)

\* del d[k]
Del(d, k) == SelectSeq(d, LAMBDA item : item[1] # k)

\* ModelRegistry()
EmptyRegistry == [kind |-> "registry", models |-> <<>>, configs |-> <<>>]

\* The engines create_model knows (models.py 351-356; one stands for the four)
Engines == {"ollama"}

\* create_model(config): the model built from the configuration
create_model(config) == [built_from |-> config]

\* What the callers register: identifiers, engines (one of them unknown to
\* create_model) and model names
RegistryNames == {"e1", "e2", "e3"}

RegistryEngines == Engines \cup {"bogus"}

ModelNames == {"m1", "m2"}

\* ModelRegistry.add_model(name, engine, model_name): a name that is present
\* is logged and replaced.  create_model raises ValueError for an engine it
\* does not know, and the constructor of the model may raise (its package
\* is missing): the exception is raised again and nothing is stored.
add_model(name, engine, model_name, built) ==
    /\ callee.kind = "registry"
    /\ callArgs' = [op |-> "add_model", name |-> name, engine |-> engine,
                    model_name |-> model_name]
    /\ LET config == [name |-> name, engine |-> engine,
                      model_name |-> model_name]
       IN  IF engine \in Engines /\ built
           THEN /\ callee' = [callee EXCEPT
                        !.models = Put(@, name, create_model(config)),
                        !.configs = Put(@, name, config)]
                /\ callOut' = <<[raised |-> "none"]>>
           ELSE /\ callee' = callee
                /\ callOut' = <<[raised |-> IF engine \in Engines
                                            THEN "Exception"
                                            ELSE "ValueError"]>>
    /\ UNCHANGED <<orchVars, patVars>>

\* ModelRegistry.remove_model(name) on the registry called on its own: the
\* test reads self.models, then both entries are deleted; `del
\* self.configs[name]` raises KeyError when only the model is registered,
\* after the model has been deleted
registry_remove_model(name) ==
    /\ callee.kind = "registry"
    /\ callArgs' = [op |-> "remove_model", name |-> name]
    /\ IF ~Has(callee.models, name)
       THEN /\ callee' = callee
            /\ callOut' = <<[raised |-> "KeyError"]>>
       ELSE IF ~Has(callee.configs, name)
       THEN /\ callee' = [callee EXCEPT !.models = Del(@, name)]
            /\ callOut' = <<[raised |-> "KeyError"]>>
       ELSE /\ callee' = [callee EXCEPT
                    !.models = Del(@, name), !.configs = Del(@, name)]
            /\ callOut' = <<[raised |-> "none"]>>
    /\ UNCHANGED <<orchVars, patVars>>

\* ModelRegistry.update_model_config(name, model_name=model_name): the
\* configuration object is changed in place, so the model built from it
\* sees the change, then the model is built again and stored; an
\* exception of the constructor is raised again after the change
update_model_config(name, model_name, built) ==
    /\ callee.kind = "registry"
    /\ callArgs' = [op |-> "update_model_config", name |-> name,
                    model_name |-> model_name]
    /\ IF ~Has(callee.configs, name)
       THEN /\ callee' = callee
            /\ callOut' = <<[raised |-> "KeyError"]>>
       ELSE LET old == Get(callee.configs, name, <<>>)
                config == [old EXCEPT !.model_name = model_name]
                shared == /\ Has(callee.models, name)
                          /\ Get(callee.models, name, <<>>) = create_model(old)
            IN  /\ callee' = [callee EXCEPT
                        !.configs = Put(@, name, config),
                        !.models = IF built \/ shared
                                   THEN Put(@, name, create_model(config))
                                   ELSE @]
                /\ callOut' = <<[raised |-> IF built THEN "none"
                                            ELSE "Exception"]>>
    /\ UNCHANGED <<orchVars, patVars>>

\* A Model instance its caller built, under the name it is given
GivenModel(name) ==
    create_model([name |-> name, engine |-> "custom", model_name |-> name])

\* Ensemble.add_model(name, model), on an Ensemble that was given the
\* registry: self.registry.models[name] = model
ensemble_add_model(name) ==
    /\ callee.kind = "registry"
    /\ callArgs' = [op |-> "Ensemble.add_model", name |-> name]
    /\ callee' = [callee EXCEPT !.models = Put(@, name, GivenModel(name))]
    /\ callOut' = <<[raised |-> "none"]>>
    /\ UNCHANGED <<orchVars, patVars>>

\* Ensemble.remove_model(name): the model is deleted when it is there
ensemble_remove_model(name) ==
    /\ callee.kind = "registry"
    /\ callArgs' = [op |-> "Ensemble.remove_model", name |-> name]
    /\ callee' = [callee EXCEPT !.models = Del(@, name)]
    /\ callOut' = <<[raised |-> "none"]>>
    /\ UNCHANGED <<orchVars, patVars>>

\* ModelRegistry.get(name): the model registered under the name, or KeyError
registry_get(name) ==
    /\ callee.kind = "registry"
    /\ callArgs' = [op |-> "get", name |-> name]
    /\ callOut' = IF Has(callee.models, name)
                  THEN <<[raised |-> "none",
                          value |-> Get(callee.models, name, <<>>)]>>
                  ELSE <<[raised |-> "KeyError"]>>
    /\ UNCHANGED <<orchVars, patVars, callee>>

\* ModelRegistry.clear()
registry_clear ==
    /\ callee.kind = "registry"
    /\ callArgs' = [op |-> "clear"]
    /\ callee' = [callee EXCEPT !.models = <<>>, !.configs = <<>>]
    /\ callOut' = <<[raised |-> "none"]>>
    /\ UNCHANGED <<orchVars, patVars>>

InitRegistry ==
    /\ OrchUnused
    /\ PatUnused
    /\ callee = EmptyRegistry
    /\ callArgs = <<>>
    /\ callOut = <<>>

NextRegistry ==
    \/ \E name \in RegistryNames, engine \in RegistryEngines,
          model_name \in ModelNames, built \in BOOLEAN :
            add_model(name, engine, model_name, built)
    \/ \E name \in RegistryNames : registry_remove_model(name)
    \/ \E name \in RegistryNames : registry_get(name)
    \/ \E name \in RegistryNames, model_name \in ModelNames,
          built \in BOOLEAN :
            update_model_config(name, model_name, built)
    \/ \E name \in RegistryNames : ensemble_add_model(name)
    \/ \E name \in RegistryNames : ensemble_remove_model(name)
    \/ registry_clear

SpecRegistry == InitRegistry /\ [][NextRegistry]_vars

-----------------------------------------------------------------------------
(* MetacognitiveOrchestrator._execute_hybrid: the ensemble first, the       *)
(* mixture of experts when the ensemble's confidence is below the          *)
(* threshold, the two combined by the consensus mixer.  The activation is  *)
(* kept in callee, its configuration in callArgs, what it returns or       *)
(* raises in callOut.  What the two sub-strategies answer is the           *)
(* environment's choice: a result with a confidence, or an exception.      *)

\* Confidence values met by the hybrid strategy, in tenths
HybridConfidences == 0 .. 10

\* The thresholds the configurations carry, in tenths
HybridThresholds == {4, 7}

\* The parameters of ConsensusBasedMixer.mix after self
MixSignature ==
    [required |-> {"query", "responses"}, optional |-> {"weights"}]

\* The keyword arguments _execute_hybrid passes to the mixer
HybridMixKeywords == {"responses", "confidences", "metadata"}

\* Python binds a call made with keyword arguments only when every
\* parameter without a default is given and every keyword names a parameter
Accepts(signature, keywords) ==
    /\ signature.required \subseteq keywords
    /\ keywords \subseteq signature.required \cup signature.optional

\* The result of a sub-strategy: _execute_ensemble, _execute_moe
StrategyResult(strategy, c) ==
    [response |-> strategy, confidence |-> c, models_used |-> <<strategy>>,
     metadata |-> [strategy |-> strategy]]

HybridActivation(pc, ensemble_result, moe_result) ==
    [kind |-> "hybrid", pc |-> pc, ensemble_result |-> ensemble_result,
     moe_result |-> moe_result]

\* What _execute_hybrid hands back to _execute_pipeline
HybridOutcome(raised, res, moe_calls, mixer_calls) ==
    [raised |-> raised, result |-> res, moe_calls |-> moe_calls,
     mixer_calls |-> mixer_calls]

\* await self._execute_ensemble(...), then the comparison with the threshold
HybridEnsemble(ok, c) ==
    /\ callee.kind = "hybrid"
    /\ callee.pc = "ensemble"
    /\ IF ~ok
       THEN /\ callee' = [callee EXCEPT !.pc = "done"]
            /\ callOut' = <<HybridOutcome("Exception", <<>>, 0, 0)>>
       ELSE LET ensemble_result == StrategyResult("ensemble", c)
            IN  IF c < callArgs.confidence_threshold
                THEN /\ callee' = HybridActivation("moe", <<ensemble_result>>, <<>>)
                     /\ callOut' = callOut
                ELSE /\ callee' = HybridActivation("done", <<ensemble_result>>, <<>>)
                     /\ callOut' = <<HybridOutcome("none",
                            <<[ensemble_result EXCEPT
                                 !.metadata.strategy = "hybrid_ensemble_only"]>>,
                            0, 0)>>
    /\ UNCHANGED <<orchVars, patVars, callArgs>>

\* await self._execute_moe(...)
HybridMoE(ok, c) ==
    /\ callee.kind = "hybrid"
    /\ callee.pc = "moe"
    /\ IF ~ok
       THEN /\ callee' = [callee EXCEPT !.pc = "done"]
            /\ callOut' = <<HybridOutcome("Exception", <<>>, 1, 0)>>
       ELSE /\ callee' = [callee EXCEPT !.pc = "combine",
                                       !.moe_result = <<StrategyResult("moe", c)>>]
            /\ callOut' = callOut
    /\ UNCHANGED <<orchVars, patVars, callArgs>>

\* await consensus_mixer.mix(responses=..., confidences=..., metadata=...)
\* and the result built from what the mixer returns; combined is the
\* confidence a mixer accepting the call would report
HybridCombine(combined) ==
    /\ callee.kind = "hybrid"
    /\ callee.pc = "combine"
    /\ callee' = [callee EXCEPT !.pc = "done"]
    /\ LET ensemble_result == callee.ensemble_result[1]
           moe_result == callee.moe_result[1]
       IN  IF ~Accepts(MixSignature, HybridMixKeywords)
           THEN callOut' = <<HybridOutcome("TypeError", <<>>, 1, 1)>>
           ELSE callOut' = <<HybridOutcome("none",
                    <<[response |-> "consensus",
                       confidence |-> combined,
                       models_used |-> ensemble_result.models_used
                                         \o moe_result.models_used,
                       metadata |-> [strategy |-> "hybrid",
                                     ensemble_confidence |-> ensemble_result.confidence,
                                     moe_confidence |-> moe_result.confidence,
                                     combination_method |-> "consensus"]]>>,
                    1, 1)>>
    /\ UNCHANGED <<orchVars, patVars, callArgs>>

InitHybrid ==
    /\ OrchUnused
    /\ PatUnused
    /\ callee = HybridActivation("ensemble", <<>>, <<>>)
    /\ callArgs \in {[PipelineConfig(HYBRID) EXCEPT !.confidence_threshold = t] :
                        t \in HybridThresholds}
    /\ callOut = <<>>

NextHybrid ==
    \/ \E ok \in BOOLEAN, c \in HybridConfidences : HybridEnsemble(ok, c)
    \/ \E ok \in BOOLEAN, c \in HybridConfidences : HybridMoE(ok, c)
    \/ \E combined \in HybridConfidences : HybridCombine(combined)

SpecHybrid == InitHybrid /\ [][NextHybrid]_vars

-----------------------------------------------------------------------------
(* _select_strategy applied to every analysis and configuration.  The      *)
(* function reads three entries of the analysis; it is applied here to     *)
(* every combination of them, those _analyze_query never builds included.  *)

Analyses ==
    {[complexity |-> c, requires_synthesis |-> s, requires_expertise |-> e] :
        c \in QueryComplexity, s \in BOOLEAN, e \in BOOLEAN}

SelectArgs ==
    {[analysis |-> a, config |-> PipelineConfig(s)] :
        a \in Analyses, s \in PipelineStrategy}

\* strategy = await self._select_strategy(analysis, config)
ApplySelectStrategy ==
    /\ callee.kind = "select"
    /\ callOut = <<>>
    /\ callOut' = <<_select_strategy(callArgs.analysis, callArgs.config)>>
    /\ UNCHANGED <<orchVars, patVars, callee, callArgs>>

InitSelect ==
    /\ OrchUnused
    /\ PatUnused
    /\ callee = [kind |-> "select"]
    /\ callArgs \in SelectArgs
    /\ callOut = <<>>

NextSelect == ApplySelectStrategy

SpecSelect == InitSelect /\ [][NextSelect]_vars

-----------------------------------------------------------------------------
(* DiadochiPipeline.query and batch_query.  batch_query makes one query     *)
(* coroutine per question and gathers them: the event loop starts the      *)
(* tasks in the order of the questions and changes from one to another     *)
(* where the running one awaits.  The batch is kept in callee, its         *)
(* arguments in callArgs, what it returns or raises in callOut.            *)

\* The questions of the largest batch
MaxBatch == 2

\* str.lower() of one character: an ASCII capital becomes its small letter,
\* any other character of the model's texts is kept
Lower(c) ==
    LET capitals ==
            <<"A", "B", "C", "D", "E", "F", "G", "H", "I", "J", "K", "L", "M",
              "N", "O", "P", "Q", "R", "S", "T", "U", "V", "W", "X", "Y", "Z">>
        small ==
            <<"a", "b", "c", "d", "e", "f", "g", "h", "i", "j", "k", "l", "m",
              "n", "o", "p", "q", "r", "s", "t", "u", "v", "w", "x", "y", "z">>
    IN  IF \E k \in 1..26 : capitals[k] = c
        THEN small[CHOOSE k \in 1..26 : capitals[k] = c]
        ELSE c

\* lines 69-78: the strategy named by the caller, a string kept as the
\* sequence of its characters and compared in lower case; any other name is
\* auto
StrategyEnum(name) ==
    LET lowered == [i \in 1..Len(name) |-> Lower(name[i])]
    IN  CASE lowered = <<"e", "n", "s", "e", "m", "b", "l", "e">> -> ENSEMBLE
          [] lowered = <<"m", "o", "e">> -> MOE
          [] lowered = <<"m", "i", "x", "t", "u", "r", "e", "_", "o", "f", "_", "e", "x", "p", "e", "r", "t", "s">>
                -> MOE
          [] lowered = <<"c", "h", "a", "i", "n">> -> CHAIN
          [] lowered = <<"h", "y", "b", "r", "i", "d">> -> HYBRID
          [] OTHER -> AUTO

\* lines 81-87: the configuration query builds
QueryConfig(name) == PipelineConfig(StrategyEnum(name))

\* lines 97-106: the dictionary made of a PipelineResult
ResultDict(r) ==
    [response |-> r.response,
     confidence |-> r.confidence,
     strategy_used |-> r.strategy_used,
     explanation |-> r.explanation,
     metadata |-> [failed |-> r.error]]

\* asyncio.gather(*tasks): the position of the result of the task-th task
\* in the list returned, whichever tasks completed before it
GatherSlot_completionOrder(task, completed) == Len(completed) + 1

GatherSlot(task, completed) == task

BatchQuestions ==
    UNION {[1..n -> {Query(4, FALSE, FALSE), Query(60, TRUE, FALSE)}] :
              n \in 0..MaxBatch}

\* The strategy names given to query: "auto", "chain" and "MoE"
StrategyNames ==
    {<<"a", "u", "t", "o">>, <<"c", "h", "a", "i", "n">>, <<"M", "o", "E">>}

BatchArgs ==
    {[questions |-> qs, strategy |-> s] :
        qs \in BatchQuestions, s \in StrategyNames}

Batch(batchArgs) ==
    [kind |-> "batch", pc |-> "gather", started |-> 0, current |-> 0,
     waiting |-> <<>>, completed |-> <<>>,
     returned |-> [i \in 1..Len(batchArgs.questions) |-> <<>>],
     results |-> [i \in 1..Len(batchArgs.questions) |-> <<>>]]

Gathering == callee.kind = "batch" /\ callee.pc = "gather"

\* The event loop starts the next task: query runs up to the call of
\* process_query; the task that was running waits at its await
StartTask ==
    /\ Gathering
    /\ callee.started < Len(callArgs.questions)
    /\ Running \/ callee.current = 0
    /\ suspended' = IF Running THEN Append(suspended, Context) ELSE suspended
    /\ callee' = [callee EXCEPT
            !.started = @ + 1,
            !.current = callee.started + 1,
            !.waiting = IF Running THEN Append(@, callee.current) ELSE @]
    /\ stack' = <<NewFrame(callArgs.questions[callee.started + 1],
                           QueryConfig(callArgs.strategy))>>
    /\ ret' = NoReturn
    /\ executed' = <<>>
    /\ fallbackAttempts' = 0
    /\ answered' = 0
    /\ nQueries' = nQueries + 1
    /\ UNCHANGED <<stats, recorded, patVars, callArgs, callOut>>

\* The event loop resumes the i-th waiting task; the task that ran waits in
\* its place, unless it has completed
ResumeTask(i) ==
    /\ Gathering
    /\ i \in 1..Len(suspended)
    /\ Running \/ callee.current = 0
    /\ suspended' = IF Running THEN [suspended EXCEPT ![i] = Context]
                    ELSE Remove(suspended, i)
    /\ callee' = [callee EXCEPT
            !.current = callee.waiting[i],
            !.waiting = IF Running THEN [@ EXCEPT ![i] = callee.current]
                        ELSE Remove(@, i)]
    /\ stack' = suspended[i].stack
    /\ ret' = suspended[i].ret
    /\ executed' = suspended[i].executed
    /\ fallbackAttempts' = suspended[i].fallbackAttempts
    /\ answered' = suspended[i].answered
    /\ UNCHANGED <<stats, recorded, nQueries, patVars, callArgs, callOut>>

\* process_query has come back to query: query returns the dictionary and
\* gather keeps it; an exception out of query is raised by gather to the
\* caller of batch_query
QueryReturns ==
    /\ Gathering
    /\ callee.current # 0
    /\ ~Running
    /\ ret # NoReturn
    /\ IF ret.kind = "raised"
       THEN /\ callee' = [callee EXCEPT !.pc = "done", !.current = 0]
            /\ callOut' = <<[raised |-> "Exception", results |-> <<>>]>>
       ELSE /\ callee' = [callee EXCEPT
                    !.current = 0,
                    !.completed = Append(@, callee.current),
                    !.returned[callee.current] = <<ret>>,
                    !.results[GatherSlot(callee.current, callee.completed)] =
                        <<ResultDict(ret)>>]
            /\ callOut' = callOut
    /\ ret' = NoReturn
    /\ UNCHANGED <<stack, stats, recorded, executed, fallbackAttempts, answered,
                   nQueries, suspended, patVars, callArgs>>

\* Every task has completed: gather returns the list of the results
BatchReturns ==
    /\ Gathering
    /\ Len(callee.completed) = Len(callArgs.questions)
    /\ callee' = [callee EXCEPT !.pc = "done"]
    /\ callOut' = <<[raised |-> "none",
                     results |-> [i \in 1..Len(callArgs.questions) |->
                                     callee.results[i][1]]]>>
    /\ UNCHANGED <<orchVars, patVars, callArgs>>

InitBatch ==
    /\ OrchUnused
    /\ PatUnused
    /\ callArgs \in BatchArgs
    /\ callee = Batch(callArgs)
    /\ callOut = <<>>

NextBatch ==
    \/ StartTask
    \/ \E i \in 1..MaxBatch : ResumeTask(i)
    \/ QueryReturns
    \/ BatchReturns
    \/ \E ok \in BOOLEAN : AnalyzeQuery(ok)
    \/ \E ok \in BOOLEAN : SelectStrategy(ok)
    \/ \E ok \in BOOLEAN, c \in Confidences : ExecutePipeline(ok, c)
    \/ \E ok \in BOOLEAN : EnhanceResult(ok)
    \/ \E ok \in BOOLEAN : ReturnResult(ok)
    \/ HandleException
    \/ FallbackReturnsToQuery

SpecBatch == InitBatch /\ [][NextBatch]_vars

-----------------------------------------------------------------------------
(* The routers (routers.py).  A router is kept in callee, the call made on *)
(* it in callArgs, what the call returns in callOut.  A score is the       *)
(* fraction <<numerator, denominator>>; a scores dict is the sequence of   *)
(* its <<name, score>> items in insertion order.  A query and a keyword    *)
(* are sequences of lower-case words; a set of keywords is the sequence in *)
(* which the interpreter iterates over it.  What the embedding model, the  *)
(* classifier and the judging expert answer is the environment's choice    *)
(* and comes with the call, in callArgs.reply.  callArgs.pc tells where    *)
(* the call stands: "called", or "awaiting" the judging expert.            *)

\* a >= b for two scores
AtLeast(a, b) == a[1] * b[2] >= b[1] * a[2]

\* A score or a threshold of t tenths
Tenths(t) == <<t, 10>>

RECURSIVE LCMDen(_)
LCMDen(items) ==
    IF items = <<>> THEN 1
    ELSE LET d == items[1][2][2]
             l == LCMDen(Tail(items))
         IN  (d * l) \div GCD(d, l)

\* sorted(scores.items(), key=lambda x: x[1], reverse=True)
SortedByScore(items) ==
    SortKeyed(items, [i \in 1..Len(items) |->
                        items[i][2][1] * (LCMDen(items) \div items[i][2][2])])

\* set(keywords): the sequences in which the interpreter may iterate over
\* the set.  A keyword given twice is held once, and the order is that of
\* the hashes of the strings, which change from one process to another
SetOrders(keywords) ==
    LET distinct == SeqToSet(keywords)
    IN  {order \in [1..Cardinality(distinct) -> distinct] :
            \A i, j \in 1..Cardinality(distinct) :
                i # j => order[i] # order[j]}

IsPrefix(p, s) == Len(p) <= Len(s) /\ SubSeq(s, 1, Len(p)) = p

\* pattern.findall(query) for the pattern \b(?:k1|k2|...)\b: at each word
\* the first alternative that matches is taken and the scan goes on after it
RECURSIVE findall(_, _)
findall(alternatives, words) ==
    IF words = <<>> THEN <<>>
    ELSE LET hits == {i \in 1..Len(alternatives) :
                        IsPrefix(alternatives[i], words)}
         IN  IF hits = {} THEN findall(alternatives, Tail(words))
             ELSE LET a == alternatives[CHOOSE i \in hits :
                                           \A j \in hits : i <= j]
                  IN  <<a>> \o findall(alternatives,
                                       SubSeq(words, Len(a) + 1, Len(words)))

\* KeywordRouter._compile_patterns, run by __init__ and by every
\* add_domain: the alternatives of a domain's pattern, in the order the set
\* of its keywords is iterated
_compile_patterns(router, name) == Get(router.domains, name, <<>>).keywords

RECURSIVE KeywordScores(_, _, _)
KeywordScores(router, query, available) ==
    IF available = <<>> THEN <<>>
    ELSE LET model == Head(available)
             rest == KeywordScores(router, query, Tail(available))
         IN  IF Has(router.domains, model)
                /\ Get(router.domains, model, <<>>).keywords # <<>>
             THEN LET matches == findall(_compile_patterns(router, model), query)
                      total == Len(Get(router.domains, model, <<>>).keywords)
                  IN  <<<<model, IF matches # <<>>
                                 THEN <<Cardinality(SeqToSet(matches)), total>>
                                 ELSE <<0, 1>>>>>> \o rest
             ELSE rest

\* EmbeddingRouter._calculate_scores: the cosine similarity of every
\* available model that has a domain with an embedding
EmbeddingScores(router, reply, available) ==
    LET scored == SelectSeq(available, LAMBDA model :
                     /\ Has(router.domains, model)
                     /\ Get(router.domains, model, <<>>).embedding)
    IN  [i \in 1..Len(scored) |-> <<scored[i], Tenths(reply.values[scored[i]])>>]

\* What route and route_multiple leave behind when they raise
AttributeError == "AttributeError"

\* `not self.classifier` (lines 405 and 435, outside every try): the
\* truth value of a RandomForestClassifier is len() of its estimators_.
\* Fitted it has 100 of them and is true ("fitted").  The classifier that
\* line 386 assigned and line 387 failed to fit is "unfitted" when fit
\* raised before it assigned estimators_ (it rejected its input): the
\* attribute is missing and the test raises AttributeError.  It is "empty"
\* when fit raised after it assigned estimators_ = [] (while growing the
\* trees): the length is 0 and the classifier counts as absent, as does
\* None ("none")
ClassifierRaises(router) ==
    router.type = "classifier" /\ router.classifier = "unfitted"

\* `not self.classifier` is true
ClassifierAbsent(router) == router.classifier \in {"none", "empty"}

\* ClassifierRouter._calculate_scores: AttributeError from the test of the
\* classifier, no scores without classifier or vectorizer or when
\* transform raises for not being fitted (inside the try), else the
\* probability of every class of the classifier whose label has an
\* available domain, in the order of the labels
ClassifierScores(router, reply, available) ==
    LET labelled == Take(router.label_to_domain, router.classes)
        scored == SelectSeq(labelled,
                            LAMBDA domain : domain \in SeqToSet(available))
    IN  IF ClassifierRaises(router) THEN AttributeError
        ELSE IF ClassifierAbsent(router) \/ router.vectorizer # "fitted"
        THEN <<>>
        ELSE IF reply.raises THEN <<>>
        ELSE [i \in 1..Len(scored) |->
                <<scored[i], Tenths(reply.values[scored[i]])>>]

\* prompt_template.format(domains=..., query=...): the default template
\* holds the braces of a JSON example, which format takes for fields and
\* raises KeyError; a template of the caller without such braces formats
Formats(prompt_template) == prompt_template # "default"

\* LLMRouter._calculate_scores up to `await self.router_model.generate`:
\* the judge is asked when the router has a model, a domain of an available
\* model is described and the prompt formats
AsksJudge(router, call) ==
    /\ router.type = "llm"
    /\ router.backend
    /\ \E i \in 1..Len(call.available_models) :
            Has(router.domains, call.available_models[i])
    /\ Formats(router.prompt_template)

\* LLMRouter._calculate_scores from the judge's reply on: the scores of
\* the reply for the available models, those outside [0, 1] left out; no
\* scores when the judge raised or its reply is not JSON
JudgeScores(reply, available) ==
    LET scored == SelectSeq(available, LAMBDA model :
                     /\ model \in reply.given
                     /\ 0 <= reply.values[model]
                     /\ reply.values[model] <= 10)
    IN  IF reply.raises \/ reply.malformed
        THEN <<>>
        ELSE [i \in 1..Len(scored) |->
                <<scored[i], Tenths(reply.values[scored[i]])>>]

\* LLMRouter._calculate_scores when nothing else runs while the judge is
\* awaited
LLMScores(router, call) ==
    IF AsksJudge(router, call)
    THEN JudgeScores(call.reply, call.available_models)
    ELSE <<>>

\* _calculate_scores of the four routers
_calculate_scores(router, call) ==
    IF router.type = "keyword"
    THEN KeywordScores(router, call.query, call.available_models)
    ELSE IF router.type = "llm" THEN LLMScores(router, call)
    ELSE IF router.type = "classifier"
    THEN ClassifierScores(router, call.reply, call.available_models)
    ELSE IF ~router.backend THEN <<>>
    ELSE IF call.reply.raises THEN <<>>
    ELSE EmbeddingScores(router, call.reply, call.available_models)

\* `if score >= self.threshold`
MeetsThreshold(score, threshold) == AtLeast(score, Tenths(threshold))

\* max(scores.items(), key=lambda x: x[1]): the first of the maximal items
BestItem(items) == SortedByScore(items)[1]

\* route from the scores on: the best model when its score reaches
\* self.threshold
Selection(router, calculated) ==
    IF calculated = <<>> THEN None
    ELSE IF MeetsThreshold(BestItem(calculated)[2], router.threshold)
         THEN BestItem(calculated)[1]
         ELSE None

\* route of the four routers, nothing else running meanwhile; the
\* classifier router tests its classifier before it calculates
route(router, call) ==
    IF ClassifierRaises(router) THEN AttributeError
    ELSE IF router.type # "keyword" /\ ~router.backend THEN None
    ELSE Selection(router, _calculate_scores(router, call))

\* EmbeddingRouter.route_multiple, lines 266-280: the softmax of the scores
\* (temperature 1.0), as items
SoftmaxItems(calculated) ==
    LET soft == Softmax([i \in 1..Len(calculated) |-> calculated[i][2][1]])
    IN  [i \in 1..Len(calculated) |-> <<calculated[i][1], soft[i]>>]

\* route_multiple from the scores on: the first k of the ranking that
\* reach self.threshold
Ranking(router, calculated, k) ==
    LET ranked == IF router.type = "embedding"
                  THEN SortedByScore(SoftmaxItems(calculated))
                  ELSE SortedByScore(calculated)
    IN  IF calculated = <<>> THEN <<>>
        ELSE SelectSeq(Take(ranked, k),
                       LAMBDA item : MeetsThreshold(item[2], router.threshold))

\* route_multiple of the four routers, nothing else running meanwhile
route_multiple(router, call) ==
    IF ClassifierRaises(router) THEN AttributeError
    ELSE Ranking(router, _calculate_scores(router, call), call.k)

RouterNames == {"e1", "e2", "e3"}

\* DomainDescription: set(keywords) in its iteration order, and whether
\* an embedding was computed
DomainDescription(keywords, embedding) ==
    [keywords |-> keywords, embedding |-> embedding]

\* Router.add_domain and what the routers add to it: keywords is
\* set(keywords or []) in its iteration order; the embedding router
\* computes the embedding when it has an embedding model and encode
\* returns, the keyword router compiles its patterns again
add_domain(router, name, keywords, encoded) ==
    [router EXCEPT !.domains =
        Put(@, name,
            DomainDescription(keywords,
                router.type = "embedding" /\ router.backend /\ encoded))]

\* A dict of domains whose sets of keywords hold what the ones of d hold,
\* in every order in which they may be iterated
RECURSIVE Reorderings(_)
Reorderings(d) ==
    IF d = <<>> THEN {<<>>}
    ELSE {<< <<d[1][1], [d[1][2] EXCEPT !.keywords = order]>> >> \o rest :
            order \in SetOrders(d[1][2].keywords),
            rest \in Reorderings(Tail(d))}

\* The domains added to the routers of the model, the keywords as the
\* caller listed them; the embedding router with an embedding model has
\* computed their embeddings
RouterDomains(type, backend) ==
    IF type = "keyword"
    THEN << <<"e1", DomainDescription(<< <<"heart">>, <<"heart", "rate">> >>, FALSE)>>,
            <<"e2", DomainDescription(<< <<"and">>, <<"heart">>, <<"sleep">>,
                                         <<"diet">> >>, FALSE)>>,
            <<"e3", DomainDescription(<< <<"sleep">> >>, FALSE)>> >>
    ELSE IF type = "embedding"
    THEN << <<"e1", DomainDescription(<<>>, backend)>>,
            <<"e2", DomainDescription(<<>>, backend)>>,
            <<"e3", DomainDescription(<<>>, backend)>> >>
    ELSE << <<"e1", DomainDescription(<<>>, FALSE)>>,
            <<"e2", DomainDescription(<<>>, FALSE)>> >>

\* The default threshold of each router, in tenths
DefaultThreshold(type) == IF type = "keyword" THEN 3 ELSE 6

\* A router to which the domains have been added.  backend says whether
\* the router has its collaborator (the embedding model, the classifier
\* with its vectorizer, the judging expert); a classifier router that has
\* one was trained on queries of three domains, one that has none is as
\* __init__ leaves it
Router(type, backend, prompt_template, domains) ==
    LET trained == type = "classifier" /\ backend
    IN  [kind |-> "router", type |-> type,
         threshold |-> DefaultThreshold(type),
         backend |-> backend, prompt_template |-> prompt_template,
         domains |-> domains,
         vectorizer |-> IF trained THEN "fitted" ELSE "none",
         classifier |-> IF trained THEN "fitted" ELSE "none",
         classes |-> IF trained THEN 3 ELSE 0,
         label_to_domain |-> IF trained THEN <<"e3", "e1", "e2">> ELSE <<>>]

Routers ==
    {Router("keyword", TRUE, "default", domains) :
        domains \in Reorderings(RouterDomains("keyword", TRUE))}
    \cup {Router(type, backend, "default", RouterDomains(type, backend)) :
            type \in {"embedding", "classifier", "llm"}, backend \in BOOLEAN}
    \cup {Router("llm", TRUE, "custom", RouterDomains("llm", TRUE))}

\* The domains added while the model runs: a keyword no domain had, and a
\* keyword listed twice
AddedDomains(type) ==
    IF type = "keyword"
    THEN {<<"e3", << <<"vo2">> >> >>, <<"e1", << <<"heart">>, <<"heart">> >> >>}
    ELSE {<<"e3", << <<"vo2">> >> >>}

\* The threshold a caller gives a router it holds, in tenths
RaisedThreshold == 10

\* The domains of the training data, as list(set(domains)) orders them
TrainedLabels == {<<"e1", "e3">>, <<"e2", "e1", "e3">>}

\* How far train_classifier gets: it raises ImportError at line 355 when
\* scikit-learn is not installed, or the statement named raises (zip on
\* empty training data, fit_transform, train_test_split, classifier.fit
\* before it has assigned estimators_ ("fit") or after it has assigned the
\* empty list ("fit_trees"), classification_report), or it returns
TrainOutcomes ==
    {"ImportError", "zip", "fit_transform", "train_test_split", "fit",
     "fit_trees", "classification_report", "returns"}

\* ClassifierRouter.train_classifier on training data of the domains
\* `labels`: line 366 replaces the vectorizer, line 373 fits it, line 378
\* replaces the label mapping, line 386 replaces the classifier and line
\* 387 fits it
train_classifier(router, labels, ending) ==
    LET reached ==
            CASE ending \in {"ImportError", "zip"} -> 0
              [] ending = "fit_transform" -> 1
              [] ending = "train_test_split" -> 2
              [] ending \in {"fit", "fit_trees"} -> 3
              [] OTHER -> 4
        after ==
            [router EXCEPT
                !.vectorizer = IF reached = 0 THEN @
                               ELSE IF reached = 1 THEN "unfitted"
                               ELSE "fitted",
                !.label_to_domain = IF reached >= 2 THEN labels ELSE @,
                !.classifier = IF reached <= 2 THEN @
                               ELSE IF ending = "fit" THEN "unfitted"
                               ELSE IF ending = "fit_trees" THEN "empty"
                               ELSE "fitted",
                !.classes = IF reached <= 2 THEN @
                            ELSE IF reached = 3 THEN 0
                            ELSE Len(labels)]
    IN  [after EXCEPT !.backend = /\ after.vectorizer # "none"
                                  /\ ~ClassifierAbsent(after)]

RouterQueries ==
    {<<"heart", "rate", "and", "heart">>, <<"heart", "rate">>,
     <<"sleep">>, <<"vo2", "max">>}

\* The lists of available models: the names in any order, none twice
AvailableLists ==
    {av \in UNION {[1..n -> RouterNames] : n \in 0..3} :
        \A i, j \in 1..Len(av) : i # j => av[i] # av[j]}

\* The k of route_multiple; route has none
RouterKs == {1, 2}

\* What the collaborator of a router answers, in tenths
ReplyValues == {2, 6, 9}

NoReply == [raises |-> FALSE, malformed |-> FALSE, given |-> {},
            values |-> [n \in RouterNames |-> 0]]

\* The answers of the embedding model, the classifier and the judge
Replies(type) ==
    IF type = "keyword" THEN {NoReply}
    ELSE IF type = "llm"
    THEN {[NoReply EXCEPT !.raises = TRUE], [NoReply EXCEPT !.malformed = TRUE]}
         \cup {[NoReply EXCEPT !.given = {n \in RouterNames : v[n] # 0},
                                !.values = v] :
                 v \in [RouterNames -> ReplyValues \cup {0, 12}] \
                          {[n \in RouterNames |-> 0]}}
    ELSE {[NoReply EXCEPT !.raises = TRUE]}
         \cup {[NoReply EXCEPT !.given = RouterNames, !.values = v] :
                 v \in [RouterNames -> ReplyValues]}

RouterCalls(type) ==
    {[op |-> op, query |-> q, available_models |-> av, k |-> k, reply |-> r,
      pc |-> "called"] :
        op \in {"route", "route_multiple"},
        q \in IF type = "keyword" THEN RouterQueries ELSE {<<"vo2", "max">>},
        av \in AvailableLists, k \in RouterKs, r \in Replies(type)}

\* The call has not ended: what follows runs before it or, when the judge
\* is awaited, meanwhile
CallPending == callee.kind = "router" /\ callOut = <<>>

\* router.add_domain(name, description, keywords)
AddDomain(name, keywords, encoded) ==
    /\ CallPending
    /\ callee' = add_domain(callee, name, keywords, encoded)
    /\ UNCHANGED <<orchVars, patVars, callArgs, callOut>>

\* router.train_classifier(training_data), which ended as `ending`
TrainClassifier(labels, ending) ==
    /\ CallPending
    /\ callee.type = "classifier"
    /\ callee' = train_classifier(callee, labels, ending)
    /\ UNCHANGED <<orchVars, patVars, callArgs, callOut>>

\* router.threshold = threshold, by the caller that holds the router
SetThreshold(threshold) ==
    /\ CallPending
    /\ callee' = [callee EXCEPT !.threshold = threshold]
    /\ UNCHANGED <<orchVars, patVars, callArgs, callOut>>

\* await router.route(query, available_models), up to the await of the
\* judge or, without one, to the end
Route ==
    /\ CallPending
    /\ callArgs.op = "route"
    /\ callArgs.pc = "called"
    /\ IF AsksJudge(callee, callArgs)
       THEN /\ callArgs' = [callArgs EXCEPT !.pc = "awaiting"]
            /\ callOut' = callOut
       ELSE /\ callArgs' = [callArgs EXCEPT !.pc =
                                IF ClassifierRaises(callee) THEN "raised"
                                ELSE "returned"]
            /\ callOut' = <<route(callee, callArgs)>>
    /\ UNCHANGED <<orchVars, patVars, callee>>

\* await router.route_multiple(query, available_models, k), likewise
RouteMultiple ==
    /\ CallPending
    /\ callArgs.op = "route_multiple"
    /\ callArgs.pc = "called"
    /\ IF AsksJudge(callee, callArgs)
       THEN /\ callArgs' = [callArgs EXCEPT !.pc = "awaiting"]
            /\ callOut' = callOut
       ELSE /\ callArgs' = [callArgs EXCEPT !.pc =
                                IF ClassifierRaises(callee) THEN "raised"
                                ELSE "returned"]
            /\ callOut' = <<route_multiple(callee, callArgs)>>
    /\ UNCHANGED <<orchVars, patVars, callee>>

\* router_model.generate has returned or raised: the call goes on to its
\* end with the router as it is now
JudgeAnswers ==
    /\ CallPending
    /\ callArgs.pc = "awaiting"
    /\ LET calculated == JudgeScores(callArgs.reply,
                                     callArgs.available_models)
       IN  callOut' = <<IF callArgs.op = "route"
                        THEN Selection(callee, calculated)
                        ELSE Ranking(callee, calculated, callArgs.k)>>
    /\ callArgs' = [callArgs EXCEPT !.pc = "returned"]
    /\ UNCHANGED <<orchVars, patVars, callee>>

InitRouter ==
    /\ OrchUnused
    /\ PatUnused
    /\ callee \in Routers
    /\ callArgs \in RouterCalls(callee.type)
    /\ callArgs.op = "route" => callArgs.k = 1
    /\ callOut = <<>>

NextRouter ==
    \/ Route
    \/ RouteMultiple
    \/ JudgeAnswers
    \/ \E d \in AddedDomains(callee.type), encoded \in BOOLEAN :
          \E order \in SetOrders(d[2]) : AddDomain(d[1], order, encoded)
    \/ \E labels \in TrainedLabels, ending \in TrainOutcomes :
          TrainClassifier(labels, ending)
    \/ SetThreshold(RaisedThreshold)

SpecRouter == InitRouter /\ [][NextRouter]_vars

-----------------------------------------------------------------------------
(* The confidence estimators (utils/confidence.py).  An estimator is kept  *)
(* in callee, the call of estimate_confidence in callArgs, the map it      *)
(* returns in callOut.  Confidences are fractions, a map is the sequence   *)
(* of its <<domain, confidence>> items in insertion order.  What the       *)
(* embedding model, the vectorizer and the judging expert answer comes     *)
(* with the call: callArgs.replies holds the answer to each request.  The  *)
(* arithmetic is exact.  While the judging expert is awaited the call is   *)
(* kept in callArgs too: pc is "awaiting", `at` is the estimator of the    *)
(* hybrid that runs, batch the batch it asked about, confidences what it   *)
(* has for the batches before, all_estimates what the estimators before    *)
(* it returned.                                                            *)

\* {domain: 0.0 for domain in available_domains}
Zeros(available) == [i \in 1..Len(available) |-> <<available[i], <<0, 1>>>>]

\* min(score, 1.0)
Min1(score) == IF score[1] > score[2] THEN <<1, 1>> ELSE score

\* DomainProfile: set(keywords) in its iteration order, and whether an
\* embedding or a TF-IDF vector is held for the domain
DomainProfile(keywords, embedded) ==
    [keywords |-> keywords, embedding |-> embedded]

\* KeywordConfidence.estimate_confidence.  The queries of the model hold no
\* word of which a keyword is a proper part, so that the pattern for
\* partial matches and the pattern for exact matches find the same matches
KeywordConfidence(est, query, available) ==
    [i \in 1..Len(available) |->
        LET domain == available[i]
            profile == Get(est.domain_profiles, domain, <<>>)
        IN  IF ~Has(est.domain_profiles, domain) THEN <<domain, <<0, 1>>>>
            ELSE IF profile.keywords = <<>> THEN <<domain, <<0, 1>>>>
            ELSE LET alternatives == profile.keywords
                     partial_matches == Len(findall(alternatives, query))
                     exact_matches == Len(findall(alternatives, query))
                     total_keywords == Len(profile.keywords)
                     score == IF est.boost_exact_matches
                              THEN <<exact_matches * 2 + partial_matches,
                                     total_keywords * 2>>
                              ELSE <<partial_matches, total_keywords>>
                 IN  <<domain, Min1(score)>>]

\* The domains of a call that have what the estimator compares the query
\* with, and those that have not
ValidDomains(est, available) ==
    SelectSeq(available, LAMBDA domain :
        /\ Has(est.domain_profiles, domain)
        /\ Get(est.domain_profiles, domain, <<>>).embedding)

InvalidDomains(est, available) ==
    SelectSeq(available, LAMBDA domain :
        ~(/\ Has(est.domain_profiles, domain)
          /\ Get(est.domain_profiles, domain, <<>>).embedding))

\* EmbeddingConfidence.estimate_confidence: 0.0 for a domain without a
\* profile or an embedding, the softmax of the similarities for the others;
\* zeros for all when there is no embedding model, when it raises, or when
\* the similarity metric is not known
EmbeddingConfidence(est, reply, available) ==
    LET valid == ValidDomains(est, available)
        soft == Softmax([i \in 1..Len(valid) |-> reply.values[valid[i]]])
    IN  IF ~est.backend THEN Zeros(available)
        ELSE IF reply.raises THEN Zeros(available)
        ELSE IF valid # <<>>
                /\ est.similarity_metric \notin {"cosine", "euclidean", "dot"}
        THEN Zeros(available)
        ELSE Zeros(InvalidDomains(est, available))
             \o [i \in 1..Len(valid) |-> <<valid[i], soft[i]>>]

MinSeq(s) == -MaxSeq([i \in 1..Len(s) |-> -s[i]])

\* TFIDFConfidence.estimate_confidence: 0.0 for a domain without a vector,
\* the similarities of the others brought to [0, 1] by their minimum and
\* maximum, or 1/n each when they are all equal
TFIDFConfidence(est, reply, available) ==
    LET valid == ValidDomains(est, available)
        similarities == [i \in 1..Len(valid) |-> reply.values[valid[i]]]
    IN  IF ~est.backend THEN Zeros(available)
        ELSE IF reply.raises THEN Zeros(available)
        ELSE IF valid = <<>> THEN Zeros(available)
        ELSE Zeros(InvalidDomains(est, available))
             \o [i \in 1..Len(valid) |->
                  <<valid[i],
                    IF MaxSeq(similarities) > MinSeq(similarities)
                    THEN <<similarities[i] - MinSeq(similarities),
                           MaxSeq(similarities) - MinSeq(similarities)>>
                    ELSE <<1, Len(valid)>>>>]

\* A score of the judge taken as it is
Clamp_none(score) == score

\* max(0.0, min(1.0, score)) for a score in tenths
Clamp(score) == IF score < 0 THEN 0 ELSE IF score > 10 THEN 10 ELSE score

\* LLMConfidence._estimate_batch_confidence: the score of the judge's reply
\* for every domain of the batch, clamped, 0.0 for a domain the reply does
\* not name; zeros for the batch when the judge raises or its reply is not
\* JSON
_estimate_batch_confidence(reply, domains) ==
    IF reply.raises \/ reply.malformed THEN Zeros(domains)
    ELSE [i \in 1..Len(domains) |->
            <<domains[i],
              IF domains[i] \in reply.given
              THEN Tenths(Clamp(reply.values[domains[i]]))
              ELSE <<0, 1>>>>]

\* LLMConfidence.estimate_confidence, the b-th batch of the domains and
\* the number of batches
BatchDomains(est, available, b) ==
    SubSeq(available, (b - 1) * est.max_domains_per_call + 1,
           Min(b * est.max_domains_per_call, Len(available)))

Batches(est, available) ==
    (Len(available) + est.max_domains_per_call - 1)
        \div est.max_domains_per_call

\* estimate_confidence of an estimator that returns without awaiting
\* anything; "failing" is an estimator whose estimate_confidence raises
Estimate(est, call) ==
    IF est.type = "keyword"
    THEN [raised |-> "none",
          confidences |-> KeywordConfidence(est, call.query, call.available_domains)]
    ELSE IF est.type = "embedding"
    THEN [raised |-> "none",
          confidences |-> EmbeddingConfidence(est, call.replies[1],
                                              call.available_domains)]
    ELSE IF est.type = "tfidf"
    THEN [raised |-> "none",
          confidences |-> TFIDFConfidence(est, call.replies[1],
                                          call.available_domains)]
    ELSE IF est.type = "llm"
    THEN [raised |-> "none", confidences |-> <<>>]
    ELSE [raised |-> "Exception", confidences |-> <<>>]

\* The estimators a call runs: those of a hybrid, or the estimator itself
SubEstimators(est) == IF est.type = "hybrid" THEN est.estimators ELSE <<est>>

\* The call from its estimator `at` on, up to the next await of a judge or
\* to the end of the estimators: a judging estimator asks about its first
\* batch when there is one, any other estimator returns at once
RECURSIVE RunEstimators(_, _, _, _)
RunEstimators(est, call, at, collected) ==
    IF at > Len(SubEstimators(est))
    THEN [call EXCEPT !.pc = "combine", !.at = at,
                      !.all_estimates = collected]
    ELSE IF /\ SubEstimators(est)[at].type = "llm"
            /\ call.available_domains # <<>>
    THEN [call EXCEPT !.pc = "awaiting", !.at = at, !.batch = 1,
                      !.all_estimates = collected, !.confidences = <<>>]
    ELSE RunEstimators(est, call, at + 1,
                       Append(collected, Estimate(SubEstimators(est)[at], call)))

\* HybridConfidence.estimate_confidence, lines 575-585: the estimates of
\* the estimators, zeros in place of those of an estimator that raised
AllEstimates(collected, available) ==
    [i \in 1..Len(collected) |->
        IF collected[i].raised = "none" THEN collected[i].confidences
        ELSE Zeros(available)]

\* HybridConfidence.__init__: the weights given or 1.0 each, divided by
\* their sum when it is positive; a weight is <<numerator, denominator>>
NormalizedWeights(weights, n) ==
    LET given == IF weights = <<>> THEN [i \in 1..n |-> 1] ELSE weights
        total_weight == SumSeq(given)
    IN  [i \in 1..n |->
            <<given[i], IF total_weight > 0 THEN total_weight ELSE 1>>]

\* The sum of the fractions of a sequence
FractionPair(f) == <<f.num, f.den>>

RECURSIVE SumFractions(_)
SumFractions(s) ==
    IF s = <<>> THEN <<0, 1>>
    ELSE LET r == SumFractions(Tail(s))
         IN  FractionPair(Fraction(s[1][1] * r[2] + r[1] * s[1][2],
                                   s[1][2] * r[2]))

_weighted_average_combination(est, all_estimates, available) ==
    [d \in 1..Len(available) |->
        <<available[d],
          SumFractions([i \in 1..Len(all_estimates) |->
              LET e == Get(all_estimates[i], available[d], <<0, 1>>)
                  w == NormalizedWeights(est.weights, Len(est.estimators))[i]
              IN  FractionPair(Fraction(e[1] * w[1], e[2] * w[2]))])>>]

RECURSIVE MaxFraction(_)
MaxFraction(s) ==
    IF s = <<>> THEN <<0, 1>>
    ELSE IF AtLeast(MaxFraction(Tail(s)), s[1]) THEN MaxFraction(Tail(s))
    ELSE s[1]

_max_combination(all_estimates, available) ==
    [d \in 1..Len(available) |->
        <<available[d],
          MaxFraction([i \in 1..Len(all_estimates) |->
              Get(all_estimates[i], available[d], <<0, 1>>)])>>]

\* vote_threshold = 0.5
_vote_combination(all_estimates, available) ==
    [d \in 1..Len(available) |->
        <<available[d],
          IF all_estimates = <<>> THEN <<0, 1>>
          ELSE <<Cardinality({i \in 1..Len(all_estimates) :
                    AtLeast(Get(all_estimates[i], available[d], <<0, 1>>),
                            Tenths(5))}),
                 Len(all_estimates)>>>>]

\* What estimate_confidence returns or raises once its estimators have
\* returned `collected`: the estimate of the estimator itself, or the
\* combination the hybrid is configured with
Outcome(est, collected, available) ==
    IF est.type # "hybrid" THEN collected[1]
    ELSE IF est.combination_method = "weighted_average"
    THEN [raised |-> "none",
          confidences |-> _weighted_average_combination(est,
                              AllEstimates(collected, available), available)]
    ELSE IF est.combination_method = "max"
    THEN [raised |-> "none",
          confidences |-> _max_combination(
                              AllEstimates(collected, available), available)]
    ELSE IF est.combination_method = "vote"
    THEN [raised |-> "none",
          confidences |-> _vote_combination(
                              AllEstimates(collected, available), available)]
    ELSE [raised |-> "ValueError", confidences |-> <<>>]

\* ConfidenceEstimator.add_domain and what the estimators add to it:
\* keywords is set(keywords or []) in its iteration order.  The embedding
\* estimator holds an embedding when it has a model and encode returns;
\* the TF-IDF estimator fits its vectorizer on all the profiles and holds
\* a vector for each when that returns, and keeps the vectors it had
\* otherwise
base_add_domain(est, name, keywords, encoded) ==
    LET had == /\ Has(est.domain_profiles, name)
               /\ Get(est.domain_profiles, name, <<>>).embedding
        added == Put(est.domain_profiles, name,
                     DomainProfile(keywords,
                        CASE est.type = "embedding" -> est.backend /\ encoded
                          [] est.type = "tfidf" -> had
                          [] OTHER -> FALSE))
    IN  IF est.type = "tfidf" /\ est.backend /\ encoded
        THEN [est EXCEPT !.domain_profiles =
                [i \in 1..Len(added) |->
                    <<added[i][1], [added[i][2] EXCEPT !.embedding = TRUE]>>]]
        ELSE [est EXCEPT !.domain_profiles = added]

\* add_domain of the five estimators: the hybrid adds the domain to itself
\* and to each of its estimators
estimator_add_domain(est, name, keywords, encoded) ==
    IF est.type = "hybrid"
    THEN [base_add_domain(est, name, keywords, encoded) EXCEPT
            !.estimators = [i \in 1..Len(est.estimators) |->
                               base_add_domain(est.estimators[i], name,
                                               keywords, encoded)]]
    ELSE base_add_domain(est, name, keywords, encoded)

\* The profiles added to the estimators of the model, the keywords as the
\* caller listed them: e3 has none, and e2 may have no keyword, no
\* embedding and no vector
EstimatorProfiles ==
    << <<"e1", DomainProfile(<< <<"heart">>, <<"heart", "rate">> >>, TRUE)>>,
       <<"e2", DomainProfile(<< <<"and">>, <<"heart">>, <<"sleep">>,
                                <<"diet">> >>, TRUE)>> >>

EstimatorProfilesPartial ==
    << <<"e1", DomainProfile(<< <<"heart">>, <<"heart", "rate">> >>, TRUE)>>,
       <<"e2", DomainProfile(<<>>, FALSE)>> >>

\* The profiles without the embeddings and vectors, which an estimator
\* that has no embedding model or vectorizer does not compute
Unembedded(profiles) ==
    [i \in 1..Len(profiles) |->
        <<profiles[i][1], [profiles[i][2] EXCEPT !.embedding = FALSE]>>]

Estimator(type) ==
    [kind |-> "estimator", type |-> type,
     domain_profiles |-> IF type \in {"embedding", "tfidf"}
                         THEN EstimatorProfiles
                         ELSE Unembedded(EstimatorProfiles),
     boost_exact_matches |-> TRUE, backend |-> TRUE,
     similarity_metric |-> "cosine", max_domains_per_call |-> 2,
     estimators |-> <<>>, weights |-> <<>>, combination_method |-> "none"]

BaseEstimators ==
    {[Estimator("keyword") EXCEPT !.boost_exact_matches = boost,
                                  !.domain_profiles = profiles] :
        boost \in BOOLEAN,
        profiles \in Reorderings(Unembedded(EstimatorProfiles))
                        \cup Reorderings(Unembedded(EstimatorProfilesPartial))}
    \cup {[Estimator(type) EXCEPT !.backend = backend,
                                  !.similarity_metric = metric,
                                  !.domain_profiles =
                                      IF backend THEN profiles
                                      ELSE Unembedded(profiles)] :
            type \in {"embedding", "tfidf"}, backend \in BOOLEAN,
            metric \in {"cosine", "manhattan"},
            profiles \in {EstimatorProfiles, EstimatorProfilesPartial}}
    \cup {Estimator("llm")}

\* The hybrids of the model: over a keyword and a judging estimator in
\* either order, over a keyword estimator and one that raises, and over
\* none; with the default weights, with weights given, and with weights
\* that are all zero
HybridEstimators ==
    {[Estimator("hybrid") EXCEPT !.estimators = subs, !.weights = w,
                                 !.combination_method = method] :
        subs \in {<<Estimator("keyword"), Estimator("llm")>>,
                  <<Estimator("llm"), Estimator("keyword")>>,
                  <<Estimator("keyword"), Estimator("failing")>>},
        w \in {<<>>, <<3, 1>>, <<0, 0>>},
        method \in {"weighted_average", "max", "vote"}}
    \cup {[Estimator("hybrid") EXCEPT !.combination_method = method] :
            method \in {"weighted_average", "max", "vote"}}

Estimators == BaseEstimators \cup HybridEstimators

\* The domains added while the model runs: a profile for e3, and a keyword
\* listed twice
AddedProfiles ==
    {<<"e3", << <<"sleep">> >> >>, <<"e1", << <<"heart">>, <<"heart">> >> >>}

\* What the embedding model and the vectorizer answer: an exception or the
\* similarity of every domain, in tenths
SimilarityReplies ==
    {[NoReply EXCEPT !.raises = TRUE]}
    \cup {[NoReply EXCEPT !.given = RouterNames, !.values = v] :
            v \in [RouterNames -> ReplyValues]}

\* What the judge answers: an exception, a reply that is not JSON, or
\* scores for some domains, in tenths, some outside [0, 1]
JudgeReplies ==
    {[NoReply EXCEPT !.raises = TRUE], [NoReply EXCEPT !.malformed = TRUE]}
    \cup {[NoReply EXCEPT !.given = g, !.values = [n \in RouterNames |-> v]] :
            g \in {{"e1"}, {"e1", "e2"}, RouterNames}, v \in {-3, 6, 12}}

EstimatorReplies(est) ==
    IF est.type \in {"embedding", "tfidf"}
    THEN {<<r>> : r \in SimilarityReplies}
    ELSE IF est.type = "llm"
            \/ \E i \in 1..Len(est.estimators) : est.estimators[i].type = "llm"
    THEN {<<r1, r2>> : r1 \in JudgeReplies,
                       r2 \in {[NoReply EXCEPT !.malformed = TRUE],
                               [NoReply EXCEPT !.given = RouterNames,
                                   !.values = [n \in RouterNames |-> 12]]}}
    ELSE {<<NoReply>>}

EstimatorCalls(est) ==
    {[query |-> q, available_domains |-> av, replies |-> rs,
      pc |-> "called", at |-> 0, batch |-> 0, all_estimates |-> <<>>,
      confidences |-> <<>>] :
        q \in IF est.type \in {"keyword", "hybrid"} THEN RouterQueries
              ELSE {<<"vo2", "max">>},
        av \in AvailableLists, rs \in EstimatorReplies(est)}

\* The call has not ended: what follows runs before it or, when a judge
\* is awaited, meanwhile
EstimatePending == callee.kind = "estimator" /\ callOut = <<>>

\* estimator.add_domain(name, description, keywords)
AddDomainProfile(name, keywords, encoded) ==
    /\ EstimatePending
    /\ callee' = estimator_add_domain(callee, name, keywords, encoded)
    /\ UNCHANGED <<orchVars, patVars, callArgs, callOut>>

\* The call goes on from the estimator `at`: it stops where a judge is
\* awaited, or returns
Proceed(at, collected) ==
    LET reached == RunEstimators(callee, callArgs, at, collected)
    IN  IF reached.pc = "awaiting"
        THEN /\ callArgs' = reached
             /\ callOut' = callOut
        ELSE /\ callArgs' = callArgs
             /\ callOut' = <<Outcome(callee, reached.all_estimates,
                                     callArgs.available_domains)>>

\* await estimator.estimate_confidence(query, available_domains), up to
\* the first await of a judge or, without one, to the end
EstimateConfidence ==
    /\ EstimatePending
    /\ callArgs.pc = "called"
    /\ Proceed(1, <<>>)
    /\ UNCHANGED <<orchVars, patVars, callee>>

\* self.model.generate has returned or raised for the batch awaited: the
\* judging estimator asks about its next batch, or returns and the call
\* goes on with the estimators as they are now
BatchAnswered ==
    /\ EstimatePending
    /\ callArgs.pc = "awaiting"
    /\ LET judge == SubEstimators(callee)[callArgs.at]
           got == callArgs.confidences
                    \o _estimate_batch_confidence(
                           callArgs.replies[callArgs.batch],
                           BatchDomains(judge, callArgs.available_domains,
                                        callArgs.batch))
       IN  IF callArgs.batch < Batches(judge, callArgs.available_domains)
           THEN /\ callArgs' = [callArgs EXCEPT !.batch = @ + 1,
                                                !.confidences = got]
                /\ callOut' = callOut
           ELSE Proceed(callArgs.at + 1,
                        Append(callArgs.all_estimates,
                               [raised |-> "none", confidences |-> got]))
    /\ UNCHANGED <<orchVars, patVars, callee>>

InitEstimator ==
    /\ OrchUnused
    /\ PatUnused
    /\ callee \in Estimators
    /\ callArgs \in EstimatorCalls(callee)
    /\ callOut = <<>>

NextEstimator ==
    \/ EstimateConfidence
    \/ BatchAnswered
    \/ \E d \in AddedProfiles, encoded \in BOOLEAN :
          \E order \in SetOrders(d[2]) : AddDomainProfile(d[1], order, encoded)

SpecEstimator == InitEstimator /\ [][NextEstimator]_vars

----------------------------------------------------------------------------
(* Claims about the mixers *)

\* The mix call was made with exactly one response and has ended
MixedOne ==
    /\ callee \in Mixers
    /\ callOut # <<>>
    /\ callArgs.given = 1

\* C11: every mixer that is given exactly one response, with or without
\* weights, returns the text of that response unchanged: no header is put
\* before it, the synthesis expert is not called and no pass that drops
\* duplicate content runs.
C11_SingleResponseUnchanged ==
    MixedOne => callOut[1] = Mixed(Str(callArgs.responses[1][2]))

----------------------------------------------------------------------------
(* Claims about the registry *)

\* C12: the experts a query fans out to are fixed by the snapshot of the
\* registry taken when the query starts: whatever is removed from the
\* registry while the query is in flight, every expert selected from the
\* snapshot is called and the responses mixed are those of the selected
\* experts whose call succeeded.
C12_SnapshotFixesFanout ==
    (pat = "ensemble" /\ gpc = "done" /\ path = "routed") =>
        /\ Names(selected) \subseteq SeqToSet(snapshot)
        /\ Invoked = Names(selected)
        /\ SeqToSet(responses) = Survivors

\* C14: registering an identifier that is already present, with no explicit
\* request to replace it, fails with a duplicate-expert error and leaves
\* the expert and the configuration registered before as they were.
C14_DuplicateRefused ==
    [][(/\ callee.kind = "registry"
        /\ callArgs'.op = "add_model"
        /\ Has(callee.models, callArgs'.name))
            => (/\ callOut'[1].raised = "DuplicateExpert"
                /\ callee' = callee)]_vars

----------------------------------------------------------------------------
(* Claims about the statistics of the orchestrator *)

\* sum(stats['strategy_usage'].values())
UsageTotal ==
    stats.strategy_usage[AUTO] + stats.strategy_usage[ENSEMBLE]
        + stats.strategy_usage[MOE] + stats.strategy_usage[CHAIN]
        + stats.strategy_usage[HYBRID]

\* C13: however overlapping Query calls interleave, no update of the
\* statistics is lost or torn: total_queries is the number of outcomes
\* recorded, the usage counts of the strategies add up to total_queries,
\* and success_rate times total_queries is the number of successes.
C13_NoLostUpdate ==
    /\ stats.total_queries = recorded.successes + recorded.failures
    /\ UsageTotal = stats.total_queries
    /\ stats.success_rate.num * stats.total_queries
           = recorded.successes * stats.success_rate.den

\* Two calls in flight together, each of which has recorded a failure and
\* gone on to its fallback, and a success recorded as well
C13_Witness ==
    /\ Running
    /\ fallbackAttempts >= 1
    /\ \E i \in 1..Len(suspended) :
            /\ suspended[i].stack # <<>>
            /\ suspended[i].fallbackAttempts >= 1
    /\ recorded.failures >= 2
    /\ recorded.successes >= 1

\* The hybrid activation has returned or raised
HybridDone == callee.kind = "hybrid" /\ callee.pc = "done"

\* C15: in the Hybrid strategy the ensemble runs first and the mixture of
\* experts is invoked if and only if the ensemble's confidence is below
\* confidence_threshold: at or above the threshold the ensemble's result is
\* returned as it is, tagged hybrid_ensemble_only, and the mixture of experts
\* is never called; below it the mixture of experts is run too, both
\* responses are combined by the consensus mixer, and the metadata returned
\* carries both the ensemble's and the mixture's confidence.
C15_HybridEscalation ==
    (HybridDone /\ callee.ensemble_result # <<>>) =>
        LET ensemble_result == callee.ensemble_result[1]
            out == callOut[1]
        IN  IF ensemble_result.confidence >= callArgs.confidence_threshold
            THEN /\ out.moe_calls = 0
                 /\ out.raised = "none"
                 /\ out.result[1] = [ensemble_result EXCEPT
                        !.metadata.strategy = "hybrid_ensemble_only"]
            ELSE /\ out.moe_calls = 1
                 /\ callee.moe_result # <<>> =>
                      /\ out.raised = "none"
                      /\ out.mixer_calls = 1
                      /\ out.result[1].metadata.ensemble_confidence
                            = ensemble_result.confidence
                      /\ out.result[1].metadata.moe_confidence
                            = callee.moe_result[1].confidence

\* The rules of the automatic selection, in the order they are stated
RuleMatches(i, a) ==
    CASE i = 1 -> a.complexity = SIMPLE /\ ~a.requires_synthesis
      [] i = 2 -> a.requires_synthesis \/ a.complexity = COMPLEX
      [] i = 3 -> a.requires_expertise /\ a.complexity \in {MODERATE, COMPLEX}
      [] i = 4 -> a.complexity = EXPERT
      [] i = 5 -> TRUE

RuleStrategy(i) ==
    CASE i = 1 -> ENSEMBLE
      [] i = 2 -> MOE
      [] i = 3 -> CHAIN
      [] i = 4 -> HYBRID
      [] i = 5 -> ENSEMBLE

FirstMatchingRule(a) ==
    CHOOSE i \in 1..5 :
        /\ RuleMatches(i, a)
        /\ \A j \in 1..(i - 1) : ~RuleMatches(j, a)

SelectDone == callee.kind = "select" /\ callOut # <<>>

\* C16: with strategy auto the strategy selected for an analysis (complexity
\* tier, requires_synthesis, requires_expertise) is that of the first
\* matching rule in the order: simple and no synthesis -> ensemble;
\* synthesis required or complex -> mixture of experts; expertise required
\* and moderate or complex -> chain; expert tier -> hybrid; otherwise
\* ensemble.  With a pinned strategy the pinned strategy is selected
\* whatever the analysis.
C16_FirstMatchingRule ==
    SelectDone =>
        callOut[1] = IF callArgs.config.strategy = AUTO
                     THEN RuleStrategy(FirstMatchingRule(callArgs.analysis))
                     ELSE callArgs.config.strategy

\* An automatic selection where the mixture rule and the chain rule both
\* match, and one for the expert tier decided by the fourth rule
C16_Witness ==
    /\ SelectDone
    /\ callArgs.config.strategy = AUTO
    /\ RuleMatches(2, callArgs.analysis)
    /\ RuleMatches(3, callArgs.analysis)
    /\ callOut[1] = MOE

C16_WitnessHybrid ==
    /\ SelectDone
    /\ callArgs.config.strategy = AUTO
    /\ callArgs.analysis.complexity = EXPERT
    /\ callOut[1] = HYBRID

BatchDone == callee.kind = "batch" /\ callee.pc = "done"

\* What a Query call made alone for question q may return: the answer of
\* the strategy selected, the answer of the fallback strategy, or an error
\* result
SoloResults(q, config) ==
    LET frames ==
            {[NewFrame(q, cfg) EXCEPT
                 !.strategy = _select_strategy(_analyze_query(q), cfg),
                 !.confidence = c] :
                cfg \in {config, PipelineConfig(config.fallback_strategy)},
                c \in Confidences}
    IN  {SuccessResult(f) : f \in frames} \cup {ErrorResult(f) : f \in frames}

\* C17: batch_query over n questions returns exactly n results, the i-th
\* being the result of the run made for the i-th question, a result that
\* Query alone may return for that question; a question whose run fails has
\* an error result in its own position and the other questions keep theirs.
C17_BatchPositional ==
    BatchDone =>
        LET out == callOut[1]
            n == Len(callArgs.questions)
        IN  /\ out.raised = "none"
            /\ Len(out.results) = n
            /\ \A i \in 1..n :
                /\ callee.returned[i] # <<>>
                /\ out.results[i] = ResultDict(callee.returned[i][1])
                /\ callee.returned[i][1] \in
                      SoloResults(callArgs.questions[i],
                                  QueryConfig(callArgs.strategy))

\* A batch of two different questions has returned: the run of the first
\* failed and completed last, the run of the second answered
C17_Witness ==
    /\ BatchDone
    /\ Len(callArgs.questions) = 2
    /\ callArgs.questions[1] # callArgs.questions[2]
    /\ callee.completed = <<2, 1>>
    /\ callOut[1].results[1].metadata.failed
    /\ ~callOut[1].results[2].metadata.failed

RouteDone == callee.kind = "router" /\ callArgs.op = "route" /\ callOut # <<>>

\* The items with the top score, when that score reaches the threshold, in
\* the iteration order of the scores
TopScorers(items, threshold) ==
    SelectSeq(items, LAMBDA item :
        /\ AtLeast(item[2], Tenths(threshold))
        /\ \A j \in 1..Len(items) : AtLeast(item[2], items[j][2]))

\* route has returned; it raises on a classifier router whose classifier
\* was assigned and not fitted
RouteReturned == RouteDone /\ callArgs.pc # "raised"

\* The first two conjuncts of C18 when route returns: no selection from an
\* empty list, and the first of the top scorers in iteration order
\* selected
RouteTieBreak ==
    RouteReturned =>
        /\ callArgs.available_models = <<>> => callOut[1] = None
        /\ LET top == TopScorers(_calculate_scores(callee, callArgs),
                                 callee.threshold)
           IN  top # <<>> => callOut[1] = top[1][1]

\* C18: for every router, route with an empty list of available models
\* selects nothing; when several experts tie for the top score at or above
\* the threshold the first of them in iteration order is selected; and for
\* fixed domains, query and available models route always gives the same
\* answer, whatever the process it runs in and the order in which it
\* iterates over the keywords of a domain.
C18_RouteDeterministic ==
    /\ (RouteDone /\ callArgs.available_models = <<>>) => callOut[1] = None
    /\ RouteTieBreak
    /\ RouteDone =>
         \A domains \in Reorderings(callee.domains) :
            route([callee EXCEPT !.domains = domains], callArgs) = callOut[1]

RouteMultipleDone ==
    callee.kind = "router" /\ callArgs.op = "route_multiple" /\ callOut # <<>>

\* The scores route_multiple ranks: those of _calculate_scores, and their
\* softmax for the embedding router
RankedScores ==
    IF callee.type = "embedding"
    THEN SoftmaxItems(_calculate_scores(callee, callArgs))
    ELSE _calculate_scores(callee, callArgs)

\* route_multiple has returned; it raises on a classifier router whose
\* classifier was assigned and not fitted
RouteMultipleReturned == RouteMultipleDone /\ callArgs.pc # "raised"

\* What is returned is at most k pairs, each naming a different available
\* model with its score, in non-increasing score order, every score at or
\* above the router's threshold; a model scoring at or above the threshold
\* is left out only when k models with scores at least as high are
\* returned
ReturnedTopK ==
        LET out == callOut[1]
            limit == Tenths(callee.threshold)
        IN  /\ Len(out) <= callArgs.k
            /\ \A i \in 1..Len(out) :
                /\ out[i][1] \in SeqToSet(callArgs.available_models)
                /\ out[i] \in SeqToSet(RankedScores)
                /\ AtLeast(out[i][2], limit)
                /\ \A j \in 1..Len(out) :
                    /\ i # j => out[i][1] # out[j][1]
                    /\ i < j => AtLeast(out[i][2], out[j][2])
            /\ \A item \in SeqToSet(RankedScores) :
                (AtLeast(item[2], limit)
                   /\ item[1] \notin {out[i][1] : i \in 1..Len(out)})
                => /\ Len(out) = callArgs.k
                   /\ \A i \in 1..Len(out) : AtLeast(out[i][2], item[2])

\* C19: route_multiple(query, available_models, k) returns at most k pairs,
\* each naming a different available model with its score, in
\* non-increasing score order, every score at or above the router's
\* threshold; a model scoring at or above the threshold is left out only
\* when k models with scores at least as high are returned.
C19_RouteMultipleTopK ==
    RouteMultipleDone => (RouteMultipleReturned /\ ReturnedTopK)

\* The part of C19 that holds: whenever route_multiple returns, what it
\* returns is as C19 says
TopKWhenReturned == RouteMultipleReturned => ReturnedTopK

\* route_multiple of a classifier router has raised AttributeError
RouteMultipleRaised ==
    /\ RouteMultipleDone
    /\ callee.type = "classifier"
    /\ callArgs.pc = "raised"
    /\ callOut[1] = AttributeError

\* route_multiple has cut the ranking at k: a model at or above the
\* threshold is left out, and another with a lower score is dropped
C19_Witness ==
    /\ RouteMultipleReturned
    /\ callArgs.k = 2
    /\ Len(callOut[1]) = 2
    /\ \E item \in SeqToSet(RankedScores) :
        /\ AtLeast(item[2], Tenths(callee.threshold))
        /\ item[1] \notin {callOut[1][i][1] : i \in 1..2}

\* route_multiple of the embedding router has returned a model
C19_WitnessEmbedding ==
    /\ RouteMultipleReturned
    /\ callee.type = "embedding"
    /\ Len(_calculate_scores(callee, callArgs)) = 2
    /\ Len(callOut[1]) = 1

EstimateDone == callee.kind = "estimator" /\ callOut # <<>>

\* C20: for every confidence estimator (keyword, embedding, TF-IDF, judge,
\* hybrid), estimate_confidence(query, available_domains) returns a map
\* whose keys are exactly the available domains and whose values all lie
\* in [0.0, 1.0], also when a domain has no profile, when the scorer
\* fails, or when the judge's reply is malformed.
C20_FullMapInUnitInterval ==
    EstimateDone =>
        LET out == callOut[1]
        IN  /\ out.raised = "none"
            /\ SeqToSet(Keys(out.confidences))
                  = SeqToSet(callArgs.available_domains)
            /\ Len(out.confidences) = Len(callArgs.available_domains)
            /\ \A i \in 1..Len(out.confidences) :
                LET c == out.confidences[i][2]
                IN  c[2] > 0 /\ 0 <= c[1] /\ c[1] <= c[2]

\* A judging estimator has answered a call for three domains of which one
\* has no profile: the judge's first reply held a score above 1.0 and the
\* second was malformed
C20_Witness ==
    /\ EstimateDone
    /\ callee.type = "llm"
    /\ Len(callArgs.available_domains) = 3
    /\ ~callArgs.replies[1].raises /\ ~callArgs.replies[1].malformed
    /\ callArgs.replies[1].values["e1"] = 12
    /\ callArgs.replies[2].malformed
    /\ callOut[1].confidences[1][2] = <<10, 10>>
    /\ callOut[1].confidences[3][2] = <<0, 1>>

\* A hybrid whose second estimator raised has answered
C20_WitnessHybrid ==
    /\ EstimateDone
    /\ callee.type = "hybrid"
    /\ callee.estimators # <<>>
    /\ callee.estimators[2].type = "failing"
    /\ \E i \in 1..Len(callOut[1].confidences) :
          callOut[1].confidences[i][2][1] > 0
-----------------------------------------------------------------------------
(* get_stats: `return self.stats.copy()`.  The dictionaries are objects of *)
(* a heap and a dictionary entry holds a value or a reference to another   *)
(* dictionary: self.stats is object 1 and its 'strategy_usage' entry       *)
(* refers to object 2, the dictionary built in __init__.                   *)

\* the completed Query calls one run of the statistics model holds
MaxUpdates == 2

StatsRef == 1

\* The heap __init__ leaves behind (orchestrator.py 99-105)
InitHeap ==
    <<[total_queries |-> InitStats.total_queries,
       strategy_usage |-> 2,
       success_rate |-> InitStats.success_rate],
      InitStats.strategy_usage>>

\* What a caller reads through the dictionary `ref`: the entries of the
\* dictionary, with the per-strategy counts it refers to
Contents(heap, ref) ==
    [heap[ref] EXCEPT !.strategy_usage = heap[@]]

\* dict.copy(): a new dictionary with the entries of the old one; an entry
\* that refers to a dictionary refers to the same dictionary in the copy
dict_copy(heap, ref) == Append(heap, heap[ref])

\* _update_stats run on self.stats: the entries of object 1 are assigned,
\* the dictionary 'strategy_usage' refers to is updated in place
UpdateInPlace(heap, strategy, success) ==
    LET after == _update_stats(Contents(heap, StatsRef), strategy, success)
        usage == heap[StatsRef].strategy_usage
    IN  [heap EXCEPT ![StatsRef] = [after EXCEPT !.strategy_usage = usage],
                     ![usage] = after.strategy_usage]

\* the values a caller writes into the dictionary it was handed
WrittenCount == 9

\* stats = orchestrator.get_stats()
GetStats ==
    /\ callee.kind = "orchestrator"
    /\ callOut = <<>>
    /\ callee' = [callee EXCEPT !.heap = dict_copy(@, StatsRef)]
    /\ callOut' = <<Len(callee.heap) + 1>>
    /\ callArgs' = <<"get_stats">>
    /\ UNCHANGED <<orchVars, patVars>>

\* A Query call completes: process_query runs _update_stats (line 156 or 170)
QueryCompletes(strategy, success) ==
    /\ callee.kind = "orchestrator"
    /\ callee.heap[StatsRef].total_queries < MaxUpdates
    /\ callee' = [callee EXCEPT !.heap = UpdateInPlace(@, strategy, success)]
    /\ callArgs' = <<"query">>
    /\ UNCHANGED <<orchVars, patVars, callOut>>

\* The caller assigns an entry of the returned dictionary:
\*   stats['total_queries'] = 9
CallerWritesTotal ==
    /\ callee.kind = "orchestrator"
    /\ callOut # <<>>
    /\ callee.heap[callOut[1]].total_queries # WrittenCount
    /\ callee' = [callee EXCEPT !.heap[callOut[1]].total_queries = WrittenCount]
    /\ callArgs' = <<"write">>
    /\ UNCHANGED <<orchVars, patVars, callOut>>

\*   stats['strategy_usage'][strategy] = 9
CallerWritesUsage(strategy) ==
    /\ callee.kind = "orchestrator"
    /\ callOut # <<>>
    /\ LET usage == callee.heap[callOut[1]].strategy_usage
       IN  /\ callee.heap[usage][strategy] # WrittenCount
           /\ callee' = [callee EXCEPT !.heap[usage][strategy] = WrittenCount]
    /\ callArgs' = <<"write">>
    /\ UNCHANGED <<orchVars, patVars, callOut>>

InitSnapshot ==
    /\ OrchUnused
    /\ PatUnused
    /\ callee = [kind |-> "orchestrator", heap |-> InitHeap]
    /\ callArgs = <<"__init__">>
    /\ callOut = <<>>

NextSnapshot ==
    \/ GetStats
    \/ \E s \in PipelineStrategy \ {AUTO}, ok \in BOOLEAN : QueryCompletes(s, ok)
    \/ CallerWritesTotal
    \/ \E s \in {ENSEMBLE, MOE} : CallerWritesUsage(s)

SpecSnapshot == InitSnapshot /\ [][NextSnapshot]_vars

\* C21: the value get_stats returned is a snapshot: a Query call that
\* completes afterwards changes none of its entries, its per-strategy usage
\* counts included, and a write into the returned value changes nothing of
\* the orchestrator's own statistics.
C21_StatsSnapshot ==
    [][(callOut # <<>> /\ callOut' = callOut) =>
          /\ callArgs' = <<"query">> =>
                Contents(callee'.heap, callOut[1])
                    = Contents(callee.heap, callOut[1])
          /\ callArgs' = <<"write">> =>
                Contents(callee'.heap, StatsRef)
                    = Contents(callee.heap, StatsRef)]_vars

\* The part of C21 the shallow copy does give: the entries of the returned
\* dictionary other than 'strategy_usage' are the caller's own
SnapshotTopLevel ==
    [][(callOut # <<>> /\ callOut' = callOut) =>
          /\ callArgs' = <<"query">> =>
                /\ callee'.heap[callOut[1]].total_queries
                      = callee.heap[callOut[1]].total_queries
                /\ callee'.heap[callOut[1]].success_rate
                      = callee.heap[callOut[1]].success_rate
          /\ callArgs' = <<"write">> =>
                /\ callee'.heap[StatsRef].total_queries
                      = callee.heap[StatsRef].total_queries
                /\ callee'.heap[StatsRef].success_rate
                      = callee.heap[StatsRef].success_rate]_vars
-----------------------------------------------------------------------------
\* The strategies _execute_pipeline has a branch for
ConcreteStrategies == PipelineStrategy \ {AUTO}

\* C22: the strategy reported in every PipelineResult is the strategy used
\* for that call, one of ensemble, moe, chain or hybrid and never auto, also
\* when the result is an error result and when the fallback strategy
\* produced the answer.
C22_StrategyReported ==
    (QueryDone /\ ret.kind = "result") =>
        /\ ret.strategy_used \in ConcreteStrategies
        /\ executed # <<>> => ret.strategy_used = executed[Len(executed)]

\* The part of C22 that holds: a result that is not an error result reports
\* the strategy whose execution produced it
SuccessReportsExecuted ==
    (QueryDone /\ ret.kind = "result" /\ ~ret.error) =>
        /\ ret.strategy_used \in ConcreteStrategies
        /\ executed # <<>> /\ ret.strategy_used = executed[Len(executed)]
-----------------------------------------------------------------------------
\* The weights handed to the mixer are fractions <<numerator, denominator>>
\* over one denominator: they sum to 1 when the numerators sum to it
SumsToOne(weights, order) ==
    /\ order # <<>>
    /\ \A e \in DOMAIN weights : weights[e][2] = weights[order[1]][2]
    /\ SumSeq([i \in 1..Len(order) |-> weights[order[i]][1]])
          = weights[order[1]][2]

MixerCalledByMoE == pat = "moe" /\ gpc = "done" /\ mixed.called

\* C23: whenever MixtureOfExperts.generate calls the mixer (the object
\* being configured to normalise), the weights it passes cover exactly the
\* experts that returned a response, are non-negative and sum to 1, under
\* each aggregation method, however many qualifying experts max_experts cut
\* off and whichever selected experts failed.
C23_MixerWeights ==
    (MixerCalledByMoE /\ mcfg.normalize_weights) =>
        /\ DOMAIN mixed.weights = SeqToSet(responses)
        /\ \A e \in DOMAIN mixed.weights :
              mixed.weights[e][1] >= 0 /\ mixed.weights[e][2] > 0
        /\ SumsToOne(mixed.weights, responses)

\* The part of C23 that holds: with at least one response the weights cover
\* the responding experts, are non-negative and sum to 1
WeightsOfAnswered ==
    (MixerCalledByMoE /\ mcfg.normalize_weights /\ responses # <<>>) =>
        /\ DOMAIN mixed.weights = SeqToSet(responses)
        /\ \A e \in DOMAIN mixed.weights :
              mixed.weights[e][1] >= 0 /\ mixed.weights[e][2] > 0
        /\ SumsToOne(mixed.weights, responses)

\* Two of three selected experts answered, one qualifying expert cut off
WeightsOfAnsweredSeen ==
    /\ MixerCalledByMoE /\ mcfg.normalize_weights
    /\ Len(responses) = 2
    /\ Len(selected) = 2
    /\ Cardinality({e \in DOMAIN scores : scores[e] >= ThresholdInForce}) = 3
-----------------------------------------------------------------------------
\* C24: in Ensemble's fan-out an expert call that exceeds the timeout is
\* retried like a call that raised: an expert left out because of the
\* timeout has been invoked max_retries times in total.
C24_TimeoutRetried ==
    (pat = "ensemble" /\ path = "routed" /\ ecfg.max_retries >= 1) =>
        \A e \in Names(selected) :
            outcome[e] = "timeout" => invocations[e] = ecfg.max_retries
-----------------------------------------------------------------------------
(* _analyze_query on the text of a query.  A token is a maximal run of     *)
(* characters without white space, written as the sequence of its          *)
(* characters; a query is its tokens, of which the first `fill` are the    *)
(* token "x" (it holds no indicator) and are only counted.                 *)

\* the largest number of "x" tokens a query of the model begins with
MaxFill == 60

domain_indicators ==
    <<<<"c", "o", "m", "p", "a", "r", "e">>,
      <<"v", "e", "r", "s", "u", "s">>,
      <<"a", "n", "d">>,
      <<"b", "o", "t", "h">>,
      <<"m", "u", "l", "t", "i", "p", "l", "e">>,
      <<"d", "i", "f", "f", "e", "r", "e", "n", "t">>,
      <<"i", "n", "t", "e", "g", "r", "a", "t", "e">>,
      <<"c", "o", "m", "b", "i", "n", "e">>,
      <<"s", "y", "n", "t", "h", "e", "s", "i", "s">>,
      <<"h", "o", "l", "i", "s", "t", "i", "c">>>>

expert_indicators ==
    <<<<"e", "x", "p", "l", "a", "i", "n">>,
      <<"a", "n", "a", "l", "y", "z", "e">>,
      <<"d", "e", "t", "a", "i", "l", "e", "d">>,
      <<"c", "o", "m", "p", "r", "e", "h", "e", "n", "s", "i", "v", "e">>,
      <<"i", "n", "-", "d", "e", "p", "t", "h">>,
      <<"r", "e", "s", "e", "a", "r", "c", "h">>,
      <<"s", "t", "u", "d", "y">>,
      <<"i", "n", "v", "e", "s", "t", "i", "g", "a", "t", "i", "o", "n">>,
      <<"t", "e", "c", "h", "n", "i", "c", "a", "l">>>>

\* `indicator in token`: the indicator is a run of consecutive characters
Infix(needle, hay) ==
    \E i \in 0..(Len(hay) - Len(needle)) :
        SubSeq(hay, i + 1, i + Len(needle)) = needle

\* any(indicator in query_lower for indicator in indicators): no indicator
\* holds white space, so one that occurs occurs inside a token
AnyIndicatorIn(text, indicators) ==
    \E k \in 1..Len(indicators), t \in 1..Len(text.tokens) :
        Infix(indicators[k],
              [i \in 1..Len(text.tokens[t]) |-> Lower(text.tokens[t][i])])

\* len(query.split())
WordCount(text) == text.fill + Len(text.tokens)

\* What _analyze_query reads of the text (lines 197, 206-218)
ReadQuery(text) ==
    Query(WordCount(text),
          AnyIndicatorIn(text, domain_indicators),
          AnyIndicatorIn(text, expert_indicators))

\* The tokens that follow the "x" tokens in the queries of the model:
\* none; What is VO2 max?; Compare integrate; comprehensive analysis; hand
\* (it holds "and"); explain; explain Compare
QueryTails ==
    {<<>>,
     <<<<"W", "h", "a", "t">>,
       <<"i", "s">>,
       <<"V", "O", "2">>,
       <<"m", "a", "x", "?">>>>,
     <<<<"C", "o", "m", "p", "a", "r", "e">>,
       <<"i", "n", "t", "e", "g", "r", "a", "t", "e">>>>,
     <<<<"c", "o", "m", "p", "r", "e", "h", "e", "n", "s", "i", "v", "e">>,
       <<"a", "n", "a", "l", "y", "s", "i", "s">>>>,
     <<<<"h", "a", "n", "d">>>>,
     <<<<"e", "x", "p", "l", "a", "i", "n">>>>,
     <<<<"e", "x", "p", "l", "a", "i", "n">>,
       <<"C", "o", "m", "p", "a", "r", "e">>>>}

QueryTexts == [fill : 0..MaxFill, tokens : QueryTails]

\* analysis = await self._analyze_query(query, domain_context)
AnalyzeText ==
    /\ callee.kind = "analyze"
    /\ callOut = <<>>
    /\ callOut' = <<_analyze_query(ReadQuery(callArgs.query))>>
    /\ UNCHANGED <<orchVars, patVars, callee, callArgs>>

\* strategy = await self._select_strategy(analysis, config)
SelectForAnalysis ==
    /\ callee.kind = "analyze"
    /\ Len(callOut) = 1
    /\ callOut' = Append(callOut, _select_strategy(callOut[1], callArgs.config))
    /\ UNCHANGED <<orchVars, patVars, callee, callArgs>>

InitAnalyze ==
    /\ OrchUnused
    /\ PatUnused
    /\ callee = [kind |-> "analyze"]
    /\ callArgs \in [query : QueryTexts, config : {PipelineConfig(AUTO)}]
    /\ callOut = <<>>

NextAnalyze == AnalyzeText \/ SelectForAnalysis

SpecAnalyze == InitAnalyze /\ [][NextAnalyze]_vars

Analyzed == callee.kind = "analyze" /\ Len(callOut) >= 1

AutoSelected == callee.kind = "analyze" /\ Len(callOut) = 2

\* The tiers as C25 states them
TierOf(n) == IF n < 20 THEN SIMPLE ELSE IF n < 50 THEN MODERATE ELSE COMPLEX

\* C25: a query of n words that holds no synthesis indicator is classified
\* simple when n < 20, moderate when 20 <= n < 50 and complex when n >= 50,
\* for every n, n = 20 and n = 50 included.
C25_WordCountTiers ==
    (Analyzed /\ ~AnyIndicatorIn(callArgs.query, domain_indicators)) =>
        callOut[1].complexity = TierOf(WordCount(callArgs.query))

\* What the code does instead: the tiers begin above 20 and above 50 words
TiersOfCode ==
    (Analyzed /\ ~AnyIndicatorIn(callArgs.query, domain_indicators)) =>
        callOut[1].complexity =
            IF WordCount(callArgs.query) <= 20 THEN SIMPLE
            ELSE IF WordCount(callArgs.query) <= 50 THEN MODERATE
            ELSE COMPLEX
-----------------------------------------------------------------------------
\* `word in query_lower`
Mentions(text, word) == AnyIndicatorIn(text, <<word>>)

\* C26: with strategy auto, analysis followed by selection gives ensemble
\* to a 4-word query with no indicator, the mixture of experts to a 60-word
\* query holding "compare" and "integrate", and chain to a 15-word query
\* holding "comprehensive analysis" (an expertise indicator, no synthesis
\* indicator).
C26_Scenarios ==
    AutoSelected =>
        /\ ( /\ WordCount(callArgs.query) = 4
             /\ ~AnyIndicatorIn(callArgs.query, domain_indicators)
             /\ ~AnyIndicatorIn(callArgs.query, expert_indicators) )
              => callOut[2] = ENSEMBLE
        /\ ( /\ WordCount(callArgs.query) = 60
             /\ Mentions(callArgs.query, <<"c", "o", "m", "p", "a", "r", "e">>)
             /\ Mentions(callArgs.query, <<"i", "n", "t", "e", "g", "r", "a", "t", "e">>) )
              => callOut[2] = MOE
        /\ ( /\ WordCount(callArgs.query) = 15
             /\ Mentions(callArgs.query, <<"c", "o", "m", "p", "r", "e", "h", "e", "n", "s", "i", "v", "e">>)
             /\ Mentions(callArgs.query, <<"a", "n", "a", "l", "y", "s", "i", "s">>)
             /\ ~AnyIndicatorIn(callArgs.query, domain_indicators) )
              => callOut[2] = CHAIN

\* The first two scenarios of C26 hold
ScenariosEnsembleMoE ==
    AutoSelected =>
        /\ ( /\ WordCount(callArgs.query) = 4
             /\ ~AnyIndicatorIn(callArgs.query, domain_indicators)
             /\ ~AnyIndicatorIn(callArgs.query, expert_indicators) )
              => callOut[2] = ENSEMBLE
        /\ ( /\ WordCount(callArgs.query) = 60
             /\ Mentions(callArgs.query, <<"c", "o", "m", "p", "a", "r", "e">>)
             /\ Mentions(callArgs.query, <<"i", "n", "t", "e", "g", "r", "a", "t", "e">>) )
              => callOut[2] = MOE

\* C27: under strategy auto each of the four strategies can be selected; in
\* particular some query is placed in the highest complexity tier by the
\* analysis, and hybrid is the strategy selected for it.
C27_HybridSelectable ==
    (callee.kind = "analyze" /\ callArgs.config.strategy = AUTO) =>
        \E text \in QueryTexts :
            LET analysis == _analyze_query(ReadQuery(text))
            IN  /\ analysis.complexity = EXPERT
                /\ _select_strategy(analysis, callArgs.config) = HYBRID

\* What the code does instead: no analysis is of the expert tier, and the
\* automatic selection never gives hybrid
NeverHybrid ==
    AutoSelected =>
        /\ callOut[1].complexity \in {SIMPLE, MODERATE, COMPLEX}
        /\ callOut[2] \in {ENSEMBLE, MOE, CHAIN}

\* The other three strategies are selected for some query
ChainSelected == AutoSelected /\ callOut[2] = CHAIN

MoESelected == AutoSelected /\ callOut[2] = MOE

EnsembleSelected == AutoSelected /\ callOut[2] = ENSEMBLE
-----------------------------------------------------------------------------
(* SummarizingChain.generate over models that are Model objects, with the  *)
(* default templates.  A response is known by who wrote it and by its      *)
(* length in characters; a prompt by its template, the text put in place   *)
(* of the query and the responses put into it.  The activation (the        *)
(* ChainContext, the step, where it stands) is kept in callee, the         *)
(* settings of the chain, the names of its models and the query in         *)
(* callArgs.                                                               *)

\* the lengths of the texts the experts and the summarizer return
ResponseLengths == {10, 30}

\* the longest chain of the model
MaxSteps == 3

\* len(f"[Error in {model_name}: {str(e)}]") less len(model_name), for an
\* error without message
ErrorWrapLength == 13

\* A text is known by its length and by `marker`: <<>> when it does not
\* hold "Original query:", <<n>> when n characters follow the last one
ChainText(kind, len, marker) == [kind |-> kind, len |-> len, marker |-> marker]

ChainResponse(kind, len) == ChainText(kind, len, <<>>)

\* The names of the experts of the model: "m", and the names of the
\* arguments the default templates are formatted with
FormatArguments == {"query", "prev_response", "all_responses"}

ExpertNames == {"m"} \cup FormatArguments

\* The chains of the model, each model known by its name
ChainModels == UNION {[1..n -> ExpertNames] : n \in 1..MaxSteps}

\* ChainContext(query=query, responses=[], metadata={}).  Of the metadata
\* the model keeps the keys that are arguments of the default templates:
\* <<>> for a key that is absent, <<text>> for one that is present.  The
\* keys response_0, response_1, ... and "responses" are in no default
\* template
ChainContext(query) ==
    [query |-> query, responses |-> <<>>,
     metadata |-> [key \in FormatArguments |-> <<>>]]

\* ChainContext.add_response: the response is appended and stored in the
\* metadata under the name of the model
add_response(context, response, model_name) ==
    [context EXCEPT
        !.responses = Append(@, response),
        !.metadata = [key \in FormatArguments |->
                         IF key = model_name THEN <<response>> ELSE @[key]]]

\* _summarize_context, lines 311-313: the summary is the only response and
\* the metadata hold the query, "summarized" and response_0
Summarized(context, summary) ==
    [context EXCEPT
        !.responses = <<summary>>,
        !.metadata = [key \in FormatArguments |->
                         IF key = "query" THEN <<context.query>> ELSE <<>>]]

\* _should_summarize with `>=` in place of `>`
_should_summarize_atLeast(chainResponses, summary_threshold) ==
    /\ chainResponses # <<>>
    /\ SumSeq([i \in 1..Len(chainResponses) |-> chainResponses[i].len])
          >= summary_threshold

_should_summarize(chainResponses, summary_threshold) ==
    /\ chainResponses # <<>>
    /\ SumSeq([i \in 1..Len(chainResponses) |-> chainResponses[i].len])
          > summary_threshold

\* format_args, lines 156-162: the query, the previous response or "" and
\* all the responses with their "Analysis i:" labels, each replaced by the
\* entry of context.metadata that has its name (`**context.metadata` comes
\* last).  prev_response is <<>> for "", all_responses says whether the
\* responses it holds come behind their labels
FormatArgs(context) ==
    [query |-> IF context.metadata["query"] # <<>>
               THEN context.metadata["query"][1]
               ELSE context.query,
     prev_response |->
        IF context.metadata["prev_response"] # <<>>
        THEN context.metadata["prev_response"]
        ELSE IF context.responses = <<>> THEN <<>>
        ELSE <<context.responses[Len(context.responses)]>>,
     all_responses |->
        IF context.metadata["all_responses"] # <<>>
        THEN [labelled |-> FALSE, holds |-> context.metadata["all_responses"]]
        ELSE [labelled |-> TRUE, holds |-> context.responses]]

\* _format_prompt with the default templates (prompt_templates is empty):
\* "first" holds the query alone, "middle" the argument prev_response,
\* "last" the argument all_responses; `holds` are the responses put into
\* the prompt, `labelled` whether each comes behind "Analysis i:", `query`
\* the text put in place of {query}
_format_prompt(context, step, total_steps) ==
    LET format_args == FormatArgs(context)
    IN  IF step = 0
        THEN [template |-> "first", query |-> format_args.query,
              holds |-> <<>>, labelled |-> FALSE]
        ELSE IF step = total_steps - 1
        THEN [template |-> "last", query |-> format_args.query,
              holds |-> format_args.all_responses.holds,
              labelled |-> format_args.all_responses.labelled]
        ELSE [template |-> "middle", query |-> format_args.query,
              holds |-> format_args.prev_response, labelled |-> FALSE]

\* The activation of generate: the ChainContext, the step and where the
\* step stands
ChainActivation ==
    [kind |-> "summarizing_chain", pc |-> "begin", step |-> 0,
     responses |-> <<>>, metadata |-> [key \in FormatArguments |-> <<>>],
     prompt |-> <<>>,
     before |-> <<>>, summarizer_calls |-> 0, summarizer |-> "none"]

\* context of the activation
ContextOf(activation, query) ==
    [query |-> query, responses |-> activation.responses,
     metadata |-> activation.metadata]

\* The top of the loop body for model i: the summarizer is called when
\* i > 0 and _should_summarize, else the prompt is formatted and the model
\* called
StepBegins ==
    /\ callee.kind = "summarizing_chain"
    /\ callee.pc = "begin"
    /\ IF /\ callee.step > 0
          /\ _should_summarize(callee.responses, callArgs.summary_threshold)
       THEN callee' = [callee EXCEPT
                !.pc = "summarizing",
                !.before = callee.responses,
                !.summarizer_calls = 1,
                !.summarizer = "called"]
       ELSE callee' = [callee EXCEPT
                !.pc = "generating",
                !.before = callee.responses,
                !.summarizer_calls = 0,
                !.summarizer = "none",
                !.prompt = <<_format_prompt(
                                ContextOf(callee, callArgs.query),
                                callee.step, Len(callArgs.models))>>]
    /\ UNCHANGED <<orchVars, patVars, callArgs, callOut>>

\* summarizer.generate returns: context.responses = [summary] and the
\* metadata are made anew
SummarizerReturns(len) ==
    /\ callee.kind = "summarizing_chain"
    /\ callee.pc = "summarizing"
    /\ LET summarized == Summarized(ContextOf(callee, callArgs.query),
                                    ChainResponse("summary", len))
       IN  callee' = [callee EXCEPT
                !.pc = "generating",
                !.responses = summarized.responses,
                !.metadata = summarized.metadata,
                !.summarizer = "returned",
                !.prompt = <<_format_prompt(summarized, callee.step,
                                            Len(callArgs.models))>>]
    /\ UNCHANGED <<orchVars, patVars, callArgs, callOut>>

\* summarizer.generate raises: the except clause of _summarize_context logs
\* and the chain goes on with the responses it had
SummarizerRaises ==
    /\ callee.kind = "summarizing_chain"
    /\ callee.pc = "summarizing"
    /\ callee' = [callee EXCEPT
            !.pc = "generating",
            !.summarizer = "raised",
            !.prompt = <<_format_prompt(ContextOf(callee, callArgs.query),
                                        callee.step, Len(callArgs.models))>>]
    /\ UNCHANGED <<orchVars, patVars, callArgs, callOut>>

\* What the loop does once the step of model i has added its response
AfterStep(added) ==
    LET last == callee.step = Len(callArgs.models) - 1
        context == add_response(ContextOf(callee, callArgs.query), added,
                                callArgs.models[callee.step + 1])
    IN  /\ callee' = [callee EXCEPT
                !.pc = IF last THEN "done" ELSE "begin",
                !.step = @ + 1,
                !.responses = context.responses,
                !.metadata = context.metadata]
        /\ callOut' = IF last THEN <<[raised |-> FALSE, response |-> added]>>
                      ELSE callOut

\* model.generate(prompt) returns and context.add_response stores it
ModelReturns(len) ==
    /\ callee.kind = "summarizing_chain"
    /\ callee.pc = "generating"
    /\ AfterStep(ChainResponse("response", len))
    /\ UNCHANGED <<orchVars, patVars, callArgs>>

\* model.generate(prompt) raises: re-raised with stop_on_error, else the
\* placeholder [Error in ...] is stored as the response
ModelRaises ==
    /\ callee.kind = "summarizing_chain"
    /\ callee.pc = "generating"
    /\ IF callArgs.stop_on_error
       THEN /\ callee' = [callee EXCEPT !.pc = "done"]
            /\ callOut' = <<[raised |-> TRUE,
                             response |-> ChainResponse("none", 0)]>>
       ELSE AfterStep(ChainResponse("error",
                ErrorWrapLength + Len(callArgs.models[callee.step + 1])))
    /\ UNCHANGED <<orchVars, patVars, callArgs>>

\* The queries of the chains: without "Original query:", and with it at
\* their beginning
ChainQueries ==
    {ChainText("query", 20, <<>>), ChainText("query", 20, <<5>>)}

InitSummarize ==
    /\ OrchUnused
    /\ PatUnused
    /\ callee = ChainActivation
    /\ callArgs \in [models : ChainModels,
                     query : ChainQueries,
                     summary_threshold : {30, 40},
                     stop_on_error : BOOLEAN]
    /\ callOut = <<>>

NextSummarize ==
    \/ StepBegins
    \/ \E len \in ResponseLengths : SummarizerReturns(len)
    \/ SummarizerRaises
    \/ \E len \in ResponseLengths : ModelReturns(len)
    \/ ModelRaises

SpecSummarize == InitSummarize /\ [][NextSummarize]_vars

\* The prompt of a step after the first has been built
LaterPromptBuilt ==
    /\ callee.kind = "summarizing_chain"
    /\ callee.pc = "generating"
    /\ callee.step > 0

Accumulated == SumSeq([i \in 1..Len(callee.before) |-> callee.before[i].len])

SummaryAlone ==
    /\ Len(callee.responses) = 1
    /\ callee.responses[1].kind = "summary"
    /\ \A i \in 1..Len(callee.prompt[1].holds) :
          callee.prompt[1].holds[i] = callee.responses[1]

\* C28 as stated: before each step after the first, an accumulated length
\* above the threshold has the summarizer invoked once, the response list
\* replaced by the single summary and the prompt of the step built from the
\* summary alone; an accumulated length not above it has no summarizer call
\* and the response list unchanged.
C28_AsStated ==
    LaterPromptBuilt =>
        IF Accumulated > callArgs.summary_threshold
        THEN callee.summarizer_calls = 1 /\ SummaryAlone
        ELSE callee.summarizer_calls = 0 /\ callee.responses = callee.before

\* C28: the same where the summarizer returns a summary; when the call of
\* the summarizer raises, the response list is left as it was and the
\* prompt of the step is built from it.
C28_SummarizeAboveThreshold ==
    LaterPromptBuilt =>
        IF Accumulated > callArgs.summary_threshold
        THEN /\ callee.summarizer_calls = 1
             /\ callee.summarizer = "returned" => SummaryAlone
             /\ callee.summarizer = "raised" =>
                   /\ callee.responses = callee.before
                   /\ callee.prompt[1] =
                         _format_prompt(
                            [ContextOf(callee, callArgs.query) EXCEPT
                                !.responses = callee.before],
                            callee.step, Len(callArgs.models))
        ELSE callee.summarizer_calls = 0 /\ callee.responses = callee.before

\* The last of three steps, two responses of 40 characters together
\* against a threshold of 30: the summarizer has returned and the prompt holds the
\* summary
C28_Witness ==
    /\ LaterPromptBuilt
    /\ callee.step = 2
    /\ Len(callee.before) = 2
    /\ Accumulated = 40
    /\ callArgs.summary_threshold = 30
    /\ callee.summarizer = "returned"
    /\ callee.prompt[1].holds = callee.responses

\* An accumulated length equal to the threshold: no summary
C28_WitnessAtThreshold ==
    /\ LaterPromptBuilt
    /\ Accumulated = callArgs.summary_threshold
    /\ callee.summarizer_calls = 0
-----------------------------------------------------------------------------
(* ConsensusBasedMixer._find_consensus on the responses of two and three   *)
(* experts, as mix calls it: on the key points of every response.          *)

\* The responses: one or two sentences of five words that say the same
\* thing in other words or something else, and a sentence too short to be
\* a key point
ConsensusTexts ==
    {<<<<"steady", "training", "builds", "aerobic", "capacity">>>>,
     <<<<"steady", "training", "builds", "aerobic", "base">>>>,
     <<<<"sleep", "quality", "drives", "recovery", "speed">>>>,
     <<<<"steady", "training", "builds", "aerobic", "capacity">>,
       <<"steady", "training", "builds", "aerobic", "base">>>>,
     <<<<"sleep", "quality", "drives", "recovery", "speed">>,
       <<"steady", "training", "builds", "aerobic", "capacity">>>>,
     <<<<"rest", "more">>>>}

ConsensusArgs ==
    UNION {
        {[responses |-> [i \in 1..n |-> <<RegistryOrder[i], t[i]>>],
          weights |-> w] :
            t \in [1..n -> ConsensusTexts],
            w \in {<<>>, [i \in 1..n |-> <<RegistryOrder[i], 2 * i + 1>>]}}
        : n \in {2, 3}}

\* key_points[source] = self._extract_key_points(response)
KeyPointsOf(resps) ==
    [i \in 1..Len(resps) |-> <<resps[i][1], _extract_key_points(resps[i][2])>>]

\* consensus_points = self._find_consensus(key_points, weights or {})
FindConsensus ==
    /\ callee.kind = "consensus"
    /\ callOut = <<>>
    /\ callOut' = <<_find_consensus(KeyPointsOf(callArgs.responses),
                                    callArgs.weights,
                                    callee.consensus_threshold)>>
    /\ UNCHANGED <<orchVars, patVars, callee, callArgs>>

InitConsensus ==
    /\ OrchUnused
    /\ PatUnused
    /\ callee = [kind |-> "consensus", consensus_threshold |-> 6,
                 conflict_resolution |-> "weight_based"]
    /\ callArgs \in ConsensusArgs
    /\ callOut = <<>>

NextConsensus == FindConsensus

SpecConsensus == InitConsensus /\ [][NextConsensus]_vars

ConsensusFound == callee.kind = "consensus" /\ callOut # <<>>

\* The experts whose response holds a key point similar to `point`
Supporters(point) ==
    LET key_points == KeyPointsOf(callArgs.responses)
    IN  {i \in 1..Len(key_points) :
            \E j \in 1..Len(key_points[i][2]) :
                _points_similar(point, key_points[i][2][j])}

\* The key points similar to `point`, over all the responses
SimilarPoints(point) ==
    LET key_points == KeyPointsOf(callArgs.responses)
    IN  {<<i, j>> \in (1..Len(key_points)) \X (1..5) :
            /\ j <= Len(key_points[i][2])
            /\ _points_similar(point, key_points[i][2][j])}

ReportedAsConsensus(point) ==
    \E k \in 1..Len(callOut[1]) : _points_similar(point, callOut[1][k])

AllKeyPoints ==
    LET key_points == KeyPointsOf(callArgs.responses)
    IN  UNION {SeqToSet(key_points[i][2]) : i \in 1..Len(key_points)}

\* C29: a group of similar points is reported as consensus only when the
\* number of experts contributing a point to it, divided by the number of
\* experts, is at least consensus_threshold: with 3 experts and 0.6 a point
\* of exactly 2 experts is reported and a point of exactly 1 expert is not,
\* however many similar sentences that expert's response holds.
C29_ConsensusByExperts ==
    ConsensusFound =>
        \A point \in AllKeyPoints :
            ReportedAsConsensus(point) <=>
                Cardinality(Supporters(point)) * 10
                    >= Len(callArgs.responses) * callee.consensus_threshold

\* What the code does instead: it counts the points of the group, those of
\* one expert's response each on its own
ConsensusByPoints ==
    ConsensusFound =>
        \A point \in AllKeyPoints :
            ReportedAsConsensus(point) <=>
                Cardinality(SimilarPoints(point)) * 10
                    >= Len(callArgs.responses) * callee.consensus_threshold

\* Three experts, a point made by exactly two of them, once each: reported
TwoOfThreeReported ==
    /\ ConsensusFound
    /\ Len(callArgs.responses) = 3
    /\ \E point \in AllKeyPoints :
          /\ Cardinality(Supporters(point)) = 2
          /\ Cardinality(SimilarPoints(point)) = 2
          /\ ReportedAsConsensus(point)
-----------------------------------------------------------------------------
(* Chain.generate, the prompt of one step: _format_prompt with the default *)
(* templates, the test on max_context_length and _truncate_prompt.  The    *)
(* chain is known by the names of its models.  A text is kept by the       *)
(* lengths of its parts: `head` is what precedes the last                  *)
(* "Original query:" of the text (the whole text when has_marker is        *)
(* FALSE), `tail` what follows it.                                         *)

\* prompt[:max_length-100]
SlackLength == 100
\* "\n\n[Content truncated]\n\nOriginal query: "
NoticeLength == 39
\* "Original query:"
MarkerLength == 15
\* "Previous analysis: " and "Previous analyses:\n"
PrefixLength == 19
\* "\n\nProvide your additional insights and analysis."
MiddleInstruction == 48
\* "\n\nSynthesize the above analyses into a comprehensive, integrated
\* response."
LastInstruction == 74
\* "Analysis i:\n", i below 10
LabelLength == 12
\* "\n\n", between two analyses and before "Original query:"
BreakLength == 2
\* "None", _format_all_responses of no response
NoneLength == 4
\* max_context_length = None
NoLimit == 0

\* len(self._format_all_responses(context))
AllResponsesLength(chainResponses) ==
    IF chainResponses = <<>>
    THEN NoneLength
    ELSE SumSeq([i \in 1..Len(chainResponses) |->
                    LabelLength + chainResponses[i].len])
         + BreakLength * (Len(chainResponses) - 1)

\* The length of what stands in place of {prev_response} or of
\* {all_responses}
HeldLength(prompt) ==
    IF prompt.labelled
    THEN AllResponsesLength(prompt.holds)
    ELSE SumSeq([i \in 1..Len(prompt.holds) |-> prompt.holds[i].len])

\* template.format(**format_args) for the prompt _format_prompt chose.
\* The last "Original query:" of the text is the one of the template, or
\* the last one of the text put in place of {query} when that text holds
\* one; `segment` is the length of what follows the one of the template
Rendered(prompt) ==
    LET asked == prompt.query
        instruction == IF prompt.template = "middle" THEN MiddleInstruction
                       ELSE LastInstruction
        before == PrefixLength + HeldLength(prompt) + BreakLength
    IN  IF prompt.template = "first"
        THEN IF asked.marker = <<>>
             THEN [head |-> asked.len, has_marker |-> FALSE, tail |-> 0,
                   segment |-> 0]
             ELSE [head |-> asked.len - MarkerLength - asked.marker[1],
                   has_marker |-> TRUE, tail |-> asked.marker[1],
                   segment |-> 0]
        ELSE IF asked.marker = <<>>
        THEN [head |-> before, has_marker |-> TRUE,
              tail |-> 1 + asked.len + instruction,
              segment |-> 1 + asked.len + instruction]
        ELSE [head |-> before + MarkerLength + 1
                       + (asked.len - MarkerLength - asked.marker[1]),
              has_marker |-> TRUE,
              tail |-> asked.marker[1] + instruction,
              segment |-> 1 + asked.len + instruction]

\* len(prompt)
TextLength(text) ==
    IF text.has_marker
    THEN text.head + MarkerLength + text.tail
    ELSE text.head

\* len(s[:k]) for a string of length len: a negative k counts from the end
SliceLength(len, k) ==
    IF k >= 0
    THEN Min(k, len)
    ELSE IF len + k > 0 THEN len + k ELSE 0

\* _truncate_prompt: the length of the text returned and the number of
\* characters at the end of `text` that the text returned still ends with
_truncate_prompt(text, max_length) ==
    IF TextLength(text) <= max_length
    THEN [len |-> TextLength(text), suffix_kept |-> TextLength(text)]
    ELSE IF text.has_marker
    THEN [len |-> SliceLength(TextLength(text), max_length - SlackLength)
                  + NoticeLength + text.tail,
          suffix_kept |-> text.tail]
    ELSE [len |-> SliceLength(TextLength(text), max_length),
          suffix_kept |-> 0]

\* The ChainContext after the models before `step` have answered
RECURSIVE ContextAt(_, _, _, _)
ContextAt(query, names, answers, step) ==
    IF step = 0 THEN ChainContext(query)
    ELSE add_response(ContextAt(query, names, answers, step - 1),
                      answers[step], names[step])

\* Chain.generate, lines 109-113: the prompt passed to model.generate
FormatAndTruncate ==
    /\ callee.kind = "chain"
    /\ callOut = <<>>
    /\ LET context == ContextAt(callArgs.query, callee.models,
                                callArgs.responses, callArgs.step)
           prompt == _format_prompt(context, callArgs.step,
                                    Len(callee.models))
           text == Rendered(prompt)
       IN  callOut' = <<[template |-> prompt.template,
                         formatted |-> text,
                         sent |-> IF /\ callee.max_context_length # NoLimit
                                     /\ TextLength(text)
                                            > callee.max_context_length
                                  THEN _truncate_prompt(
                                           text, callee.max_context_length)
                                  ELSE [len |-> TextLength(text),
                                        suffix_kept |-> TextLength(text)]]>>
    /\ UNCHANGED <<orchVars, patVars, callee, callArgs>>

MaxContextLengths == {NoLimit, 50, 100, 150, 200}

\* The queries: of 5 to 200 characters without "Original query:", and two
\* that begin with it
TruncateQueries ==
    {ChainText("query", len, <<>>) : len \in {5, 12, 13, 20, 200}}
    \cup {ChainText("query", 20, <<5>>), ChainText("query", 200, <<185>>)}

\* What the experts return: texts of the lengths of the model, one of them
\* holding "Original query:"
TruncateResponses ==
    {ChainResponse("response", len) : len \in ResponseLengths}
    \cup {ChainText("response", 30, <<5>>)}

\* context.responses when step i begins: one response for each model
\* before it
ResponsesBefore(step) == [1..step -> TruncateResponses]

InitTruncate ==
    /\ OrchUnused
    /\ PatUnused
    /\ callee \in [kind : {"chain"}, models : ChainModels,
                   max_context_length : MaxContextLengths]
    /\ \E step \in 0..(Len(callee.models) - 1) :
          callArgs \in [query : TruncateQueries, step : {step},
                        responses : ResponsesBefore(step)]
    /\ callOut = <<>>

NextTruncate == FormatAndTruncate

SpecTruncate == InitTruncate /\ [][NextTruncate]_vars

\* The step's prompt has been made, and it was longer than the configured
\* max length
TooLongSent ==
    /\ callee.kind = "chain"
    /\ callOut # <<>>
    /\ callee.max_context_length # NoLimit
    /\ TextLength(callOut[1].formatted) > callee.max_context_length

\* What follows the "Original query:" of the template in the formatted
\* prompt; the "first" prompt is the query alone and has no such segment
QuerySegment(text) == text.segment

\* C30: when a Chain step's formatted prompt is longer than the configured
\* max length, the prompt sent to the expert is no longer than that max
\* length and still ends with the original-query segment.
C30_TruncatedWithinMax ==
    TooLongSent =>
        /\ callOut[1].sent.len <= callee.max_context_length
        /\ callOut[1].sent.suffix_kept >= QuerySegment(callOut[1].formatted)

\* What the code does keep: a prompt that holds "Original query:" still
\* ends with everything that followed it, behind the notice and what is
\* left of max_length - 100 characters of the prompt; a prompt without it
\* is cut to max_length characters
TruncatedAsCoded ==
    TooLongSent =>
        IF callOut[1].formatted.has_marker
        THEN /\ callOut[1].sent.suffix_kept = callOut[1].formatted.tail
             /\ callOut[1].sent.len
                  >= NoticeLength + callOut[1].formatted.tail
        ELSE callOut[1].sent.len = callee.max_context_length

\* A truncated middle prompt that came out longer than the formatted one
TruncatedLonger ==
    /\ TooLongSent
    /\ callOut[1].template = "middle"
    /\ callOut[1].sent.len > TextLength(callOut[1].formatted)

\* A truncated prompt that does fit: a short query behind a middle prompt
TruncatedFits ==
    /\ TooLongSent
    /\ callOut[1].formatted.has_marker
    /\ callOut[1].sent.len <= callee.max_context_length
-----------------------------------------------------------------------------
\* C31: each Query call adds exactly one to total_queries and exactly one
\* to a single per-strategy usage count, whether it succeeds, fails, or is
\* answered through the fallback strategy: when no Query is running,
\* total_queries and the sum of the usage counts are the number of Query
\* calls made.
C31_OneCountPerQuery ==
    ~Running =>
        /\ stats.total_queries = nQueries
        /\ UsageTotal = nQueries

\* What the code counts: one for each activation of process_query that
\* reached line 142 and one for each that reached its except clause, so a
\* Query in which nothing raised is counted once
CountedOnceWithoutException ==
    (~Running /\ recorded.failures = 0) =>
        /\ stats.total_queries = nQueries
        /\ UsageTotal = nQueries

\* A Query answered by its fallback strategy and counted twice
CountedTwice ==
    /\ QueryDone
    /\ answered = 1
    /\ fallbackAttempts = 1
    /\ stats.total_queries = 2
-----------------------------------------------------------------------------
\* The options of a configuration beside its strategies
OptionsOf(config) ==
    <<config.max_parallel_models, config.confidence_threshold,
      config.enable_explanation>>

\* The activation on top of the stack is past its strategy selection: its
\* configuration is the one _execute_pipeline and _enhance_result are given
Applying == Running /\ Top.pc \in {"execute", "enhance", "build"}

\* C32: the options supplied with a Query call govern the whole call,
\* including a run of the fallback strategy: the max_parallel_models,
\* confidence_threshold and enable_explanation that an execution and its
\* enhancement are given are those of the caller's configuration.
C32_OptionsGovernWholeCall ==
    Applying => OptionsOf(Top.config) = OptionsOf(stack[1].config)

\* The part of C32 that holds: the options reach the first execution, and
\* in the fallback they are the defaults of PipelineConfig
OptionsOfFirstOrDefault ==
    Applying =>
        OptionsOf(Top.config) =
            IF Len(stack) = 1
            THEN OptionsOf(stack[1].config)
            ELSE OptionsOf(PipelineConfig(ENSEMBLE))

\* A Query made without explanation whose fallback is about to return a
\* result with one
ExplainedAgainstOptions ==
    /\ Applying
    /\ Len(stack) = 2
    /\ Top.pc = "build"
    /\ ~stack[1].config.enable_explanation
    /\ SuccessResult(Top).explanation
-----------------------------------------------------------------------------
\* C37: the fallback strategy is run only when it differs from the strategy
\* whose execution just failed: no strategy is executed twice in a row by
\* one Query.
C37_FallbackDiffers ==
    \A i \in 1..(Len(executed) - 1) : executed[i] # executed[i + 1]

\* What line 161 compares: the fallback strategy with the strategy the
\* failed activation was configured with, which is `auto` when the caller
\* left the choice to the orchestrator
FallbackDiffersFromConfigured ==
    \A i \in 2..Len(stack) :
        /\ stack[i].config.strategy = stack[i - 1].config.fallback_strategy
        /\ stack[i].config.strategy # stack[i - 1].config.strategy

\* An `auto` Query whose selected strategy, ensemble, failed in execution
\* and was executed again as the fallback
EnsembleExecutedTwice ==
    /\ Running
    /\ Len(stack) = 2
    /\ stack[1].config.strategy = AUTO
    /\ executed = <<ENSEMBLE, ENSEMBLE>>
-----------------------------------------------------------------------------
\* MoE.generate has estimated the scores and selected the experts
ExpertsSelected == pat = "moe" /\ Estimated /\ ~replay

\* C33: a top_k or confidence_threshold argument passed to MoE.generate
\* overrides the configured value for that call, for every value of the
\* argument including confidence_threshold = 0.0: the experts selected are
\* those _select_experts picks with the arguments that were given, and
\* with the values configured when it ran for the arguments that were not.
C33_ArgumentsOverride ==
    ExpertsSelected =>
        selected =
            _select_experts(
                applied, Items(snapshot, scores),
                IF args.top_k = NoArg THEN applied.max_experts ELSE args.top_k,
                IF args.confidence_threshold = NoArg
                THEN applied.confidence_threshold
                ELSE args.confidence_threshold)

\* The part of C33 that holds: an argument that is given and is not zero
\* is the value applied
NonZeroArgumentsOverride ==
    ( /\ ExpertsSelected
      /\ args.top_k \notin {NoArg, 0}
      /\ args.confidence_threshold \notin {NoArg, 0} ) =>
        selected = _select_experts(applied, Items(snapshot, scores),
                                   args.top_k, args.confidence_threshold)

\* A call with confidence_threshold = 0.0 on an object configured with 0.7
\* that left out an expert whose score is 0.5
ZeroThresholdIgnored ==
    /\ ExpertsSelected
    /\ args.confidence_threshold = 0
    /\ args.top_k = NoArg
    /\ applied.confidence_threshold = 7
    /\ \E e \in DOMAIN scores : scores[e] = 5 /\ e \notin Names(selected)
    /\ \E e \in DOMAIN scores : scores[e] = 9
-----------------------------------------------------------------------------
\* No call of Ensemble.generate is in progress
EnsembleAtRest == pat = "ensemble" /\ gpc \in {"idle", "done"}

\* C34: after any sequence of Ensemble.generate calls, total_queries =
\* successful_queries + failed_queries: every call, including one answered
\* with the no-available-models result or through a fallback path, is
\* counted as exactly one success or exactly one failure.
C34_EveryCallCounted ==
    EnsembleAtRest =>
        pstats.total_queries
            = pstats.successful_queries + pstats.failed_queries

\* What the code counts: a call that went through the router's selection
\* to line 140, or into the except clause of line 158; the calls answered
\* by _handle_no_available_models and _handle_fallback return before either
AnsweredUncounted ==
    ( /\ EnsembleAtRest /\ gpc = "done"
      /\ path \in {"no_models", "fallback"}
      /\ result.kind # "error" ) =>
        pstats.successful_queries + pstats.failed_queries = 0

\* A call answered through the fallback with the response of an expert
FallbackAnswerUncounted ==
    /\ EnsembleAtRest /\ gpc = "done"
    /\ path = "fallback"
    /\ result.kind = "response"
    /\ pstats.successful_queries = 0
-----------------------------------------------------------------------------
\* Ensemble.generate has answered a query the router selected experts for
RoutedAnswer == pat = "ensemble" /\ gpc = "done" /\ path = "routed"

\* C38: Ensemble.generate counts a query in successful_queries and returns
\* a response text only if at least one selected expert produced a
\* response: when every selected expert timed out or failed after its
\* retries, the call is not reported as a success with an empty answer.
C38_SuccessNeedsResponse ==
    (RoutedAnswer /\ responses = <<>>) =>
        /\ pstats.successful_queries = 0
        /\ result.kind # "response"

\* What the code does with no response: the mixer is called with the empty
\* dictionary and, unless it raises, the call is a success
EmptyAnswerIsSuccess ==
    (RoutedAnswer /\ responses = <<>>) =>
        /\ mixed.called /\ mixed.sources = {}
        /\ result.kind \in {"response", "error"}
        /\ result.kind = "response" =>
              (pstats.successful_queries = 1 \/ pstats = InitPStats)

\* The part of C38 that holds: a success with a response of some expert
SuccessWithResponse ==
    /\ RoutedAnswer
    /\ Len(selected) = 2
    /\ Len(responses) = 1
    /\ pstats.successful_queries = 1
    /\ result.kind = "response"
-----------------------------------------------------------------------------
(* The statistics of one Ensemble over several generate calls, which may   *)
(* overlap: a call raises total_queries on entry, awaits the router, the   *)
(* experts and the mixer, and updates the rest when it ends.  callee is    *)
(* the Ensemble with its stats, average_response_time kept as an exact     *)
(* fraction; callArgs holds the number of calls made and in progress and   *)
(* whether a call entered while another was in progress, callOut the       *)
(* response times of the calls counted in successful_queries.  Between     *)
(* any two steps of a call the owner of the Ensemble may call              *)
(* reset_statistics.                                                       *)

MaxCalls == 3

\* time.time() - start_time of a call, in tenths of a second
ResponseTimes == {2, 4}

\* self.stats of a new Ensemble
InitEnsembleStats ==
    [total_queries |-> 0, successful_queries |-> 0, failed_queries |-> 0,
     average_response_time |-> [num |-> 0, den |-> 1]]

\* _update_response_time
_update_response_time(st, response_time) ==
    LET avg == st.average_response_time
        n == st.total_queries
    IN  [st EXCEPT !.average_response_time =
            Fraction(avg.num * (n - 1) + response_time * avg.den,
                     avg.den * n)]

\* lines 105-106: a call enters generate
CallEnters ==
    /\ callee.kind = "ensemble"
    /\ callArgs.calls < MaxCalls
    /\ callee' = [callee EXCEPT !.stats.total_queries = @ + 1]
    /\ callArgs' = [calls |-> callArgs.calls + 1,
                    in_progress |-> callArgs.in_progress + 1,
                    overlapped |-> callArgs.overlapped
                                       \/ callArgs.in_progress > 0]
    /\ UNCHANGED <<orchVars, patVars, callOut>>

\* lines 139-142: a call has its final response.  When reset_statistics
\* has set total_queries to 0 since the call entered, the division of
\* _update_response_time raises ZeroDivisionError after successful_queries
\* was counted, and the except clause of line 163 counts a failure
CallSucceeds(response_time) ==
    /\ callee.kind = "ensemble"
    /\ callArgs.in_progress > 0
    /\ callee' = [callee EXCEPT !.stats =
            IF @.total_queries = 0
            THEN [@ EXCEPT !.successful_queries = @ + 1,
                           !.failed_queries = @ + 1]
            ELSE _update_response_time(
                    [@ EXCEPT !.successful_queries = @ + 1], response_time)]
    /\ callArgs' = [callArgs EXCEPT !.in_progress = @ - 1]
    /\ callOut' = Append(callOut, response_time)
    /\ UNCHANGED <<orchVars, patVars>>

\* lines 158-160: a call ends in the except clause
CallFails ==
    /\ callee.kind = "ensemble"
    /\ callArgs.in_progress > 0
    /\ callee' = [callee EXCEPT !.stats.failed_queries = @ + 1]
    /\ callArgs' = [callArgs EXCEPT !.in_progress = @ - 1]
    /\ UNCHANGED <<orchVars, patVars, callOut>>

\* lines 113 and 128: a call is answered by _handle_no_available_models or
\* by _handle_fallback
CallReturnsEarly ==
    /\ callee.kind = "ensemble"
    /\ callArgs.in_progress > 0
    /\ callArgs' = [callArgs EXCEPT !.in_progress = @ - 1]
    /\ UNCHANGED <<orchVars, patVars, callee, callOut>>

\* Ensemble.reset_statistics: self.stats is a new dictionary of zeros
reset_statistics ==
    /\ callee.kind = "ensemble"
    /\ callee' = [callee EXCEPT !.stats = InitEnsembleStats]
    /\ callOut' = <<>>
    /\ UNCHANGED <<orchVars, patVars, callArgs>>

InitTimes ==
    /\ OrchUnused
    /\ PatUnused
    /\ callee = [kind |-> "ensemble", stats |-> InitEnsembleStats]
    /\ callArgs = [calls |-> 0, in_progress |-> 0, overlapped |-> FALSE]
    /\ callOut = <<>>

NextTimes ==
    \/ CallEnters
    \/ \E response_time \in ResponseTimes : CallSucceeds(response_time)
    \/ CallFails
    \/ CallReturnsEarly
    \/ reset_statistics

SpecTimes == InitTimes /\ [][NextTimes]_vars

\* No call is in progress and some call was a success
TimesAtRest ==
    /\ callee.kind = "ensemble"
    /\ callArgs.in_progress = 0
    /\ callOut # <<>>

\* C35: after any sequence of Ensemble.generate calls on one Ensemble, run
\* one after another or overlapping, average_response_time equals the
\* arithmetic mean of the response times of the calls counted in
\* successful_queries.
C35_AverageOfSuccesses ==
    TimesAtRest =>
        callee.stats.average_response_time
            = Fraction(SumSeq(callOut), Len(callOut))

\* The case in which the average is the mean: every call since the
\* statistics were made or reset was a success and ended before the next
\* one entered
MeanWhenSequentialSuccesses ==
    ( /\ TimesAtRest
      /\ callee.stats.total_queries = callee.stats.successful_queries
      /\ callee.stats.failed_queries = 0
      /\ ~callArgs.overlapped ) =>
        callee.stats.average_response_time
            = Fraction(SumSeq(callOut), Len(callOut))

\* Three successes one after another, of different response times
ThreeSequentialSuccesses ==
    /\ TimesAtRest
    /\ ~callArgs.overlapped
    /\ callee.stats.successful_queries = 3
    /\ callOut = <<2, 4, 4>>

\* The running average after a failure and a success of 0.2 s: 0.1 s
HalvedByFailure ==
    /\ TimesAtRest
    /\ ~callArgs.overlapped
    /\ callee.stats.failed_queries = 1
    /\ callOut = <<2>>
    /\ callee.stats.average_response_time = Fraction(1, 1)
-----------------------------------------------------------------------------
\* The identifiers the registry holds a model for, and those it holds a
\* configuration for
Registered(d) == SeqToSet(Keys(d))

\* C36: after any sequence of ModelRegistry.add_model, remove_model,
\* update_model_config and clear operations and of Ensemble.add_model and
\* Ensemble.remove_model operations on the same registry, the registry
\* holds a configuration for exactly the identifiers for which it holds a
\* model.
C36_ConfigForEveryModel ==
    callee.kind = "registry" =>
        Registered(callee.models) = Registered(callee.configs)

\* The consequence C36 draws: remove_model of a listed identifier succeeds
\* and removes it completely
RemoveListedSucceeds ==
    [][(/\ callee.kind = "registry"
        /\ callArgs'.op = "remove_model"
        /\ Has(callee.models, callArgs'.name))
            => (/\ callOut'[1].raised = "none"
                /\ ~Has(callee'.models, callArgs'.name)
                /\ ~Has(callee'.configs, callArgs'.name))]_vars

\* What holds of the registry's own four operations: none of them changes
\* whether the two dictionaries have the same keys
RegistryOperationsKeepPairs ==
    [][(/\ callee.kind = "registry"
        /\ callArgs'.op \in {"add_model", "remove_model", "get", "clear"}
        /\ Registered(callee.models) = Registered(callee.configs))
            => Registered(callee'.models) = Registered(callee'.configs)]_vars

\* remove_model of an identifier that Ensemble.add_model listed has raised
\* KeyError
RemoveOfListedRaised ==
    /\ callee.kind = "registry"
    /\ callOut # <<>>
    /\ callArgs.op = "remove_model"
    /\ callOut[1].raised = "KeyError"
    /\ ~Has(callee.models, callArgs.name)
    /\ Has(callee.models, "e2")
    /\ ~Has(callee.configs, "e2")
-----------------------------------------------------------------------------
\* route_multiple of the embedding router has returned at least one pair
EmbeddingRouted ==
    /\ RouteMultipleReturned
    /\ callee.type = "embedding"
    /\ callOut[1] # <<>>

\* The sum of the scores of the pairs returned, which share the
\* denominator of the softmax, as a fraction
ReturnedTotal ==
    <<SumSeq([i \in 1..Len(callOut[1]) |-> callOut[1][i][2][1]]),
      callOut[1][1][2][2]>>

\* C39: the scores returned by EmbeddingRouter.route_multiple sum to 1.0
\* for every k, every threshold and every number of candidate experts,
\* including when the top-k cut or the threshold filter leaves out
\* candidates.
C39_ScoresSumToOne ==
    EmbeddingRouted =>
        /\ \A i \in 1..Len(callOut[1]) :
              callOut[1][i][2][2] = ReturnedTotal[2]
        /\ ReturnedTotal[1] = ReturnedTotal[2]

\* The part of C39 that holds: the softmax is taken over every candidate,
\* so the scores returned sum to 1 when no candidate is left out, and to
\* less when one is
SumToOneWhenAllReturned ==
    EmbeddingRouted =>
        /\ \A i \in 1..Len(callOut[1]) :
              callOut[1][i][2][2] = ReturnedTotal[2]
        /\ (ReturnedTotal[1] = ReturnedTotal[2])
              <=> (Len(callOut[1]) = Len(_calculate_scores(callee, callArgs)))

\* The only candidate returned, with the score 1
OnlyCandidateReturned ==
    /\ EmbeddingRouted
    /\ callArgs.k = 2
    /\ Len(callOut[1]) = 1
    /\ Len(_calculate_scores(callee, callArgs)) = 1
    /\ ReturnedTotal[1] = ReturnedTotal[2]

\* Two candidates within k = 2, the lower one left out by the threshold
LeftOutByThreshold ==
    /\ EmbeddingRouted
    /\ callArgs.k = 2
    /\ Len(callOut[1]) = 1
    /\ Len(_calculate_scores(callee, callArgs)) = 2
====
